---- MODULE Spec2Model ----
(***************************************************************************)
(* Block storage engine of the hub (src/libs/server/BlocksDB.cpp).         *)
(*                                                                         *)
(* Part 1: the header tree and Blocks::DB::appendHeader (the list of       *)
(*         header-chain tips, the main header chain, pindexBestHeader).    *)
(* Part 2: the raw data files and Blocks::DBPrivate::writeBlock /          *)
(*         loadBlock / mapFile (blk and rev files, CBlockFileInfo).        *)
(***************************************************************************)
EXTENDS Integers, Sequences, FiniteSets, TLC

(***************************************************************************)
(* Bounds of the model.                                                    *)
(***************************************************************************)
\* number of CBlockIndex records in the header tree (record 1 is the genesis)
NumRecords == 5
\* number of records the validation marks invalid in one run
MaxFailed == 2

(***************************************************************************)
(* Part 1 -- header tree                                                   *)
(***************************************************************************)
nullptr == 0

\* records are numbered 1..NumRecords; record 1 is the genesis
Records == 1..NumRecords
Genesis == 1

\* work contributed by one header (derived from nBits)
WorkValues == {1, 2}

FAILED_VALID == "BLOCK_FAILED_VALID"
FAILED_CHILD == "BLOCK_FAILED_CHILD"
BLOCK_FAILED_MASK == {FAILED_VALID, FAILED_CHILD}

VARIABLES
    pprev,              \* CBlockIndex::pprev of every record (nullptr for genesis)
    nWork,              \* work of every record's own header
    nStatus,            \* CBlockIndex::nStatus, restricted to the failure flags
    headerChainTips,    \* DBPrivate::headerChainTips (std::list, in list order)
    headersChain,       \* DBPrivate::headersChain (CChain::vChain, by height)
    pindexBestHeader,   \* global pindexBestHeader
    appended,           \* records handed to appendHeader so far
    vinfoBlockFile,     \* DBPrivate::vinfoBlockFile (vector of CBlockFileInfo)
    nLastBlockFile,     \* DBPrivate::nLastBlockFile
    setDirtyFileInfo,   \* DBPrivate::setDirtyFileInfo
    disk,               \* the blk and rev files of the blocks directory
    datafiles,          \* DBPrivate::datafiles (one slot per blk file)
    revertDatafiles,    \* DBPrivate::revertDatafiles (one slot per rev file)
    fileHistory,        \* DBPrivate::fileHistory (the buffers kept referenced)
    nextDataFile,       \* number of DataFile objects created so far
    nCalls,             \* number of writeBlock / writeUndoBlock calls so far
    written,            \* the write calls that completed, with what they wrote
    aborted,            \* an assert() of the code failed: the process is gone
    last,               \* the last call made and what it returned
    db,                 \* the keys of the CDBWrapper store: 'f', 'l', 'b', 'R'
    batch,              \* the CDBBatch that was written last
    reindexing,         \* DBPrivate::reindexing
    worker,             \* the thread that runs reimportBlockFiles
    closingDown,        \* Application::closingDown()
    validation,         \* the validation engine: its queue and what it got
    nRestarts,          \* number of instances constructed after the first
    nReconsider,        \* number of reconsiderBlock calls so far
    threads,            \* the threads that use the mapper: where each one is
    locks,              \* the owner of cs_LastBlockFile, DBPrivate::lock, blockIndexLock
    heap,               \* the DataFile objects: alive or deleted, and their buffer
    views,              \* the buffers handed out: DataFile, file, strong references
    nOps                \* number of operations the threads have begun

chainVars == <<pprev, nWork, nStatus, headerChainTips, headersChain,
               pindexBestHeader, appended>>

fileVars == <<vinfoBlockFile, nLastBlockFile, setDirtyFileInfo, disk,
              datafiles, revertDatafiles, fileHistory, nextDataFile, nCalls,
              written>>

metaVars == <<db, batch>>

reindexVars == <<reindexing, worker, closingDown, validation, nRestarts>>

threadVars == <<threads, locks, heap, views, nOps>>

restVars == <<metaVars, reindexVars, nReconsider, threadVars>>

vars == <<pprev, nWork, nStatus, headerChainTips, headersChain,
          pindexBestHeader, appended, vinfoBlockFile, nLastBlockFile,
          setDirtyFileInfo, disk, datafiles, revertDatafiles, fileHistory,
          nextDataFile, nCalls, written, aborted, last, db, batch,
          reindexing, worker, closingDown, validation, nRestarts,
          nReconsider, threads, locks, heap, views, nOps>>

RECURSIVE nHeight(_)
nHeight(r) == IF pprev[r] = nullptr THEN 0 ELSE 1 + nHeight(pprev[r])

RECURSIVE nChainWork(_)
nChainWork(r) ==
    IF pprev[r] = nullptr THEN nWork[r] ELSE nChainWork(pprev[r]) + nWork[r]

\* CBlockIndex::GetAncestor(height): nullptr above the record's own height
RECURSIVE GetAncestor(_, _)
GetAncestor(r, height) ==
    IF height > nHeight(r) \/ height < 0 THEN nullptr
    ELSE IF nHeight(r) = height THEN r
    ELSE GetAncestor(pprev[r], height)

Failed(r) == nStatus[r] \cap BLOCK_FAILED_MASK # {}

\* CChain, kept as vChain: vChain[h + 1] is the record at height h
ChainTip(chain) == IF Len(chain) = 0 THEN nullptr ELSE chain[Len(chain)]

ChainHeight(chain) == Len(chain) - 1

ChainContains(chain, r) ==
    /\ nHeight(r) < Len(chain)
    /\ chain[nHeight(r) + 1] = r

SetTip(r) ==
    IF r = nullptr THEN << >>
    ELSE [h \in 1..(nHeight(r) + 1) |-> GetAncestor(r, h - 1)]

\* std::list::erase of the element at index i
EraseAt(list, i) ==
    [k \in 1..(Len(list) - 1) |-> IF k < i THEN list[k] ELSE list[k + 1]]

\* lines 390-393: the last ancestor-or-self that carries no failure flag
RECURSIVE SkipFailed(_)
SkipFailed(r) == IF Failed(r) THEN SkipFailed(pprev[r]) ELSE r

\* lines 394-408: index of the first tip the block extends (0: none)
FirstExtendedTip(tips, block) ==
    LET hits == {i \in 1..Len(tips) :
                    GetAncestor(block, nHeight(tips[i])) = tips[i]}
    IN  IF hits = {} THEN 0 ELSE CHOOSE i \in hits : \A j \in hits : i <= j

\* lines 414-437: the scan over the tips when the block extends none of them
RECURSIVE ScanTips(_, _, _)
ScanTips(block, valid, a) ==
    IF a.returned \/ a.i > Len(a.tips) THEN a
    ELSE LET tip == a.tips[a.i] IN
         IF GetAncestor(tip, nHeight(block)) = block
         THEN IF valid THEN [a EXCEPT !.returned = TRUE]
              ELSE LET mainChain == ChainContains(a.chain, tip) IN
                   ScanTips(block, valid,
                       [a EXCEPT !.modified = TRUE,
                                 !.tips = EraseAt(a.tips, a.i),
                                 !.chain = IF mainChain THEN SetTip(a.validPrev)
                                           ELSE a.chain,
                                 !.modifyingMainChain = a.modifyingMainChain \/ mainChain])
         ELSE LET hit == GetAncestor(tip, nHeight(a.validPrev)) = a.validPrev IN
              ScanTips(block, valid,
                  [a EXCEPT !.i = a.i + 1,
                            !.alreadyContains = a.alreadyContains \/ hit,
                            !.validPrev =
                                IF hit /\ nChainWork(a.validPrev) < nChainWork(tip)
                                THEN tip ELSE a.validPrev])

\* the state appendHeader works on, and the outcome of a call
ChainState(tips, chain, best) == [tips |-> tips, chain |-> chain, best |-> best]

Outcome(tips, chain, best, ret, abort) ==
    [tips |-> tips, chain |-> chain, best |-> best, ret |-> ret, abort |-> abort]

\* lines 449-457: the final comparison against the main chain's tip
FinalCompare(tips, chain, best, block, validPrev, modifyingMainChain) ==
    IF ChainTip(chain) = nullptr
    THEN Outcome(tips, chain, best, FALSE, TRUE)        \* assert(Tip()) fails
    ELSE IF nChainWork(ChainTip(chain)) < nChainWork(validPrev)
    THEN Outcome(tips, SetTip(validPrev), block, TRUE, FALSE)
    ELSE Outcome(tips, chain, best, modifyingMainChain, FALSE)

\* Blocks::DB::appendHeader, lines 381-458
appendHeader(s, block) ==
    LET valid == ~Failed(block)
        validPrev0 == IF valid THEN block ELSE SkipFailed(pprev[block])
        i == FirstExtendedTip(s.tips, block)
    IN
    IF valid /\ ChainContains(s.chain, block)
    THEN Outcome(s.tips, s.chain, s.best, FALSE, FALSE)
    ELSE IF i # 0
    THEN LET tip == s.tips[i]
             tips1 == Append(EraseAt(s.tips, i), validPrev0)
         IN  IF tip = ChainTip(s.chain)
             THEN Outcome(tips1, SetTip(validPrev0), validPrev0, TRUE, FALSE)
             ELSE FinalCompare(tips1, s.chain, s.best, block, validPrev0, FALSE)
    ELSE LET a == ScanTips(block, valid,
                     [i |-> 1, tips |-> s.tips, validPrev |-> validPrev0,
                      modified |-> FALSE, alreadyContains |-> FALSE,
                      chain |-> s.chain, modifyingMainChain |-> FALSE,
                      returned |-> FALSE])
             tips2 == IF a.modified /\ ~a.alreadyContains
                      THEN Append(a.tips, a.validPrev) ELSE a.tips
         IN  IF a.returned
             THEN Outcome(s.tips, s.chain, s.best, FALSE, FALSE)
             ELSE IF valid /\ ChainHeight(a.chain) = -1
             THEN Outcome(Append(tips2, block), SetTip(block), block, TRUE, FALSE)
             ELSE FinalCompare(IF valid THEN Append(tips2, block) ELSE tips2,
                               a.chain, s.best, block, a.validPrev,
                               a.modifyingMainChain)

Current == ChainState(headerChainTips, headersChain, pindexBestHeader)

\* the header trees the model starts from, up to renaming of the records:
\* every parent precedes its child and the records are numbered level by level
Trees == {f \in [Records -> Records \cup {nullptr}] :
             /\ f[Genesis] = nullptr
             /\ \A r \in Records \ {Genesis} : f[r] # nullptr /\ f[r] < r
             /\ \A r, q \in Records \ {Genesis} : r < q => f[r] <= f[q]}

Works == {w \in [Records -> WorkValues] : w[Genesis] = 1}

NoCall == [op |-> "none", block |-> nullptr, ret |-> FALSE]

ChainInit ==
    /\ pprev \in Trees
    /\ nWork \in Works
    /\ nStatus = [r \in Records |-> {}]
    /\ headerChainTips = << >>
    /\ headersChain = << >>
    /\ pindexBestHeader = nullptr
    /\ appended = {}

\* the callers of the consensus layer hand in a header after its parent
CanAppend(block) ==
    /\ block \in Records
    /\ pprev[block] # nullptr => pprev[block] \in appended

AppendHeader(block) ==
    /\ ~aborted
    /\ CanAppend(block)
    /\ LET o == appendHeader(Current, block) IN
        /\ headerChainTips' = o.tips
        /\ headersChain' = o.chain
        /\ pindexBestHeader' = o.best
        /\ aborted' = o.abort
    /\ appended' = appended \cup {block}
    /\ UNCHANGED <<pprev, nWork, nStatus, last>>
    /\ UNCHANGED fileVars
    /\ UNCHANGED restVars

\* the validation marks a header invalid (never the genesis)
MarkFailed(r, flag) ==
    /\ ~aborted
    /\ r \in appended
    /\ pprev[r] # nullptr
    /\ flag = FAILED_CHILD => Failed(pprev[r])
    /\ nStatus[r] = {}
    /\ Cardinality({x \in Records : nStatus[x] # {}}) < MaxFailed
    /\ nStatus' = [nStatus EXCEPT ![r] = @ \cup {flag}]
    /\ UNCHANGED <<pprev, nWork, headerChainTips, headersChain,
                   pindexBestHeader, appended, aborted, last>>
    /\ UNCHANGED fileVars
    /\ UNCHANGED restVars

\* CBlockIndex::IsValid, as far as the failure flags decide it
IsValid(r) == ~Failed(r)

\* the first loop of lines 541-547 alone: the ancestors keep their flags
reconsiderDescendants(status, pindex) ==
    [r \in Records |->
        IF ~IsValid(r) /\ GetAncestor(r, nHeight(pindex)) = pindex
        THEN status[r] \ BLOCK_FAILED_MASK
        ELSE status[r]]

\* Blocks::Index::reconsiderBlock, lines 534-559
reconsiderBlock(status, pindex) ==
    [r \in Records |->
        IF \/ ~IsValid(r) /\ GetAncestor(r, nHeight(pindex)) = pindex
           \/ GetAncestor(pindex, nHeight(r)) = r
        THEN status[r] \ BLOCK_FAILED_MASK
        ELSE status[r]]

\* number of reconsiderBlock calls of a run
MaxReconsider == 1

ReconsiderBlock(pindex) ==
    /\ ~aborted
    /\ pindex \in appended
    /\ nReconsider < MaxReconsider
    /\ nStatus' = reconsiderBlock(nStatus, pindex)
    /\ nReconsider' = nReconsider + 1
    /\ last' = [op |-> "reconsiderBlock", block |-> pindex, ret |-> TRUE,
                before |-> nStatus]
    /\ UNCHANGED <<pprev, nWork, headerChainTips, headersChain,
                   pindexBestHeader, appended, aborted>>
    /\ UNCHANGED fileVars
    /\ UNCHANGED <<metaVars, reindexVars, threadVars>>

(***************************************************************************)
(* Part 2 -- raw data files                                                *)
(***************************************************************************)
\* number of writeBlock / writeUndoBlock calls of a run
MaxWrites == 3
\* largest file index a caller of writeUndoBlock asks for
MaxFileIndex == 2

MAX_BLOCKFILE_SIZE == 134217728
BLOCKFILE_CHUNK_SIZE == 16777216
UNDOFILE_CHUNK_SIZE == 1048576
\* the magic word and the length in front of every payload
HeaderSize == 8
\* the checksum behind every undo payload
ChecksumSize == 32
\* fileHistory keeps this many buffers referenced
HistorySize == 10
\* the slot vectors grow to fileIndex + SlotReserve
SlotReserve == 10

ForwardBlock == "blk"
RevertBlock == "rev"
BlockTypes == {ForwardBlock, RevertBlock}

\* sizes of the payloads handed to writeBlock and to writeUndoBlock
BlockSizes == {80, MAX_BLOCKFILE_SIZE \div 2 - HeaderSize, MAX_BLOCKFILE_SIZE - 9}
UndoSizes == {100, UNDOFILE_CHUNK_SIZE - HeaderSize - ChecksumSize}

\* file indexes a run can reach
FileIndexes == 0..(MaxFileIndex + MaxWrites)

\* a file of the blocks directory: its size and the byte ranges written to it
NoFile == [exists |-> FALSE, size |-> 0, data |-> {}]

Extent(off, len, kind, val) == [off |-> off, len |-> len, kind |-> kind, val |-> val]

Overlaps(e, off, len) == e.off < off + len /\ off < e.off + e.len

\* memcpy of len bytes to offset off of a mapped file
memcpy(data, off, len, kind, val) ==
    {e \in data : ~Overlaps(e, off, len)} \cup {Extent(off, len, kind, val)}

\* the bytes at off..off+len read back: what was written there, else zeroes
ReadBytes(data, off, len, kind) ==
    LET hit == {e \in data : e.off = off /\ e.len = len /\ e.kind = kind}
    IN  IF hit = {} THEN 0 ELSE (CHOOSE e \in hit : TRUE).val

\* the length field is read whatever the length of the payload behind it
ReadSize(data, off) == ReadBytes(data, off, 4, "size")

\* the payload of the n-th write call, and the hash of the block it belongs to
PayloadOf(n) == n
BlockHashOf(n) == n

\* a checksum over the payload alone
ChecksumOfPayload(blockHash, payload) == payload + 1

\* CHashWriter over blockHash || payload: no two inputs share a checksum
Checksum(blockHash, payload) == blockHash * (2 * MaxWrites + 2) + payload + 1

\* CBlockFileInfo as constructed
NewFileInfo == [nBlocks |-> 0, nSize |-> 0, nUndoSize |-> 0]

\* std::vector::resize
Resize(list, n, fill) ==
    [k \in 1..n |-> IF k <= Len(list) THEN list[k] ELSE fill]

\* an empty slot of datafiles / revertDatafiles
NoDataFile == [id |-> 0, filesize |-> 0, readwrite |-> FALSE]

Mapper(dfs, rdfs, history, next) ==
    [datafiles |-> dfs, revertDatafiles |-> rdfs, fileHistory |-> history,
     nextDataFile |-> next]

ListOf(m, type) ==
    IF type = ForwardBlock THEN m.datafiles ELSE m.revertDatafiles

SetList(m, type, list) ==
    IF type = ForwardBlock THEN [m EXCEPT !.datafiles = list]
    ELSE [m EXCEPT !.revertDatafiles = list]

\* lines 797-811: the last reference to a buffer is dropped
cleanupLambda(m, h) ==
    LET list == ListOf(m, h.type) IN
    IF h.fileIndex < Len(list) /\ list[h.fileIndex + 1].id = h.id
    THEN SetList(m, h.type, [list EXCEPT ![h.fileIndex + 1] = NoDataFile])
    ELSE m

\* Blocks::DBPrivate::mapFile, lines 769-831
mapFile(m, fileIndex, type, dsk, lastFile) ==
    LET useBlk == type = ForwardBlock
        list0 == ListOf(m, type)
        list1 == IF Len(list0) <= fileIndex
                 THEN Resize(list0, fileIndex + SlotReserve, NoDataFile)
                 ELSE list0
        df == list1[fileIndex + 1]
        file == dsk[type][fileIndex]
    IN
    IF df.id # 0
    THEN [m |-> SetList(m, type, list1), buf |-> df.id,
          size |-> df.filesize, writable |-> df.readwrite]
    ELSE IF file.exists
    THEN LET new == [id |-> m.nextDataFile + 1, filesize |-> file.size,
                     readwrite |-> ~(useBlk /\ fileIndex # lastFile)]
             m1 == [SetList(m, type, [list1 EXCEPT ![fileIndex + 1] = new])
                       EXCEPT !.nextDataFile = @ + 1,
                              !.fileHistory = Append(@,
                                  [type |-> type, fileIndex |-> fileIndex,
                                   id |-> new.id])]
             m2 == IF Len(m1.fileHistory) > HistorySize
                   THEN cleanupLambda([m1 EXCEPT !.fileHistory = Tail(@)],
                                      Head(m1.fileHistory))
                   ELSE m1
         IN  [m |-> m2, buf |-> new.id, size |-> new.filesize,
              writable |-> new.readwrite]
    ELSE [m |-> SetList(m, type, list1), buf |-> 0, size |-> 0,
          writable |-> FALSE]

\* Blocks::DBPrivate::loadBlock, lines 620-645 (blockHash 0: none given)
loadBlock(m, pos, type, blockHash, dsk, lastFile) ==
    LET r == mapFile(m, pos.nFile, type, dsk, lastFile)
        data == dsk[type][pos.nFile].data
        blockSize == ReadSize(data, pos.nPos - 4)
        payload == ReadBytes(data, pos.nPos, blockSize, "data")
        Throw(mm, what) == [m |-> mm, error |-> what, data |-> 0, size |-> 0]
    IN
    IF pos.nPos < 4
    THEN Throw(m, "Blocks::loadBlock got Database corruption")
    ELSE IF r.buf = 0 THEN Throw(r.m, "Failed to memmap block")
    ELSE IF pos.nPos >= r.size THEN Throw(r.m, "position outside of file")
    ELSE IF pos.nPos + blockSize + (IF blockHash # 0 THEN ChecksumSize ELSE 0)
                > r.size
    THEN Throw(r.m, "block sized bigger than file")
    ELSE IF /\ blockHash # 0
            /\ ReadBytes(data, pos.nPos + blockSize, ChecksumSize, "hash")
                   # Checksum(blockHash, payload)
    THEN Throw(r.m, "BlocksDB::loadUndoBlock, checkum mismatch")
    ELSE [m |-> r.m, error |-> "", data |-> payload, size |-> blockSize]

\* Blocks::DB::loadBlockFile, lines 356-363: the whole file but its last byte
loadBlockFile(m, fileIndex, dsk, lastFile) ==
    LET r == mapFile(m, fileIndex, ForwardBlock, dsk, lastFile) IN
    IF r.buf = 0 THEN [m |-> r.m, valid |-> FALSE, size |-> 0]
    ELSE [m |-> r.m, valid |-> TRUE, size |-> r.size - 1]

Max(a, b) == IF a >= b THEN a ELSE b

\* the state Blocks::DBPrivate::writeBlock works on
Store(vinfo, nLast, dirty, dsk, m) ==
    [vinfo |-> vinfo, nLast |-> nLast, dirty |-> dirty, disk |-> dsk, m |-> m]

\* lines 683-685: an ofstream truncates the file, resize_file sets its size
CreateFile(dsk, type, nFile, newSize) ==
    [dsk EXCEPT ![type][nFile] =
        [exists |-> TRUE, size |-> newSize, data |-> {}]]

\* a resize that opens the file the way its creation does
ResizeFileTruncating(dsk, type, nFile, newSize) ==
    CreateFile(dsk, type, nFile, newSize)

\* boost::filesystem::resize_file
ResizeFile(dsk, type, nFile, newSize) ==
    [dsk EXCEPT ![type][nFile] =
        [exists |-> TRUE, size |-> newSize,
         data |-> {e \in @.data : e.off + e.len <= newSize}]]

\* fileHasGrown / revertFileHasGrown, lines 834-853
fileHasGrown(m, type, fileIndex) ==
    LET list == ListOf(m, type) IN
    SetList(m, type, [list EXCEPT ![fileIndex + 1] = NoDataFile])

\* an "if" in the place of the "while" of line 700
growOnce(g, c) ==
    IF g.error # "" \/ ~(c.need >= g.r.size) THEN g
    ELSE LET m1 == fileHasGrown(g.m, c.type, c.nFile)
             dsk1 == ResizeFile(g.disk, c.type, c.nFile, g.r.size + c.chunk)
             r1 == mapFile(m1, c.nFile, c.type, dsk1, c.lastFile)
         IN  [m |-> r1.m, disk |-> dsk1, r |-> r1,
              error |-> IF r1.buf = 0 THEN "Failed to open resized file"
                        ELSE IF ~r1.writable
                        THEN "Resized file no longer readable"
                        ELSE ""]

\* lines 700-718: the file grows by chunks until the record fits
RECURSIVE growLoop(_, _)
growLoop(g, c) ==
    IF g.error # "" \/ ~(c.need >= g.r.size) THEN g
    ELSE LET m1 == fileHasGrown(g.m, c.type, c.nFile)
             dsk1 == ResizeFile(g.disk, c.type, c.nFile, g.r.size + c.chunk)
             r1 == mapFile(m1, c.nFile, c.type, dsk1, c.lastFile)
         IN  growLoop([m |-> r1.m, disk |-> dsk1, r |-> r1,
                       error |-> IF r1.buf = 0 THEN "Failed to open resized file"
                                 ELSE IF ~r1.writable
                                 THEN "Resized file no longer readable"
                                 ELSE ""], c)

WriteOutcome(w, nFile, nPos, error, abort, mapped, endOffset) ==
    [w |-> w, nFile |-> nFile, nPos |-> nPos, error |-> error, abort |-> abort,
     mapped |-> mapped, endOffset |-> endOffset]

\* lines 698-743: the record is copied into the mapped file
writeRecord(w, vinfo1, nLast1, dsk1, r, nFile, blockSize, payload, type, blockHash) ==
    LET useBlk == type = ForwardBlock
        info == vinfo1[nFile + 1]
        posInFile == IF useBlk THEN info.nSize ELSE info.nUndoSize
        extra == IF useBlk THEN 0 ELSE ChecksumSize
        g == growLoop([m |-> r.m, disk |-> dsk1, r |-> r, error |-> ""],
                      [need |-> posInFile + blockSize + HeaderSize + extra,
                       type |-> type, nFile |-> nFile, lastFile |-> nLast1,
                       chunk |-> IF useBlk THEN BLOCKFILE_CHUNK_SIZE
                                 ELSE UNDOFILE_CHUNK_SIZE])
        d0 == g.disk[type][nFile].data
        d1 == memcpy(d0, posInFile, 4, "magic", 1)
        d2 == memcpy(d1, posInFile + 4, 4, "size", blockSize)
        d3 == memcpy(d2, posInFile + HeaderSize, blockSize, "data", payload)
        d4 == IF useBlk THEN d3
              ELSE memcpy(d3, posInFile + HeaderSize + blockSize, ChecksumSize,
                          "hash", Checksum(blockHash, payload))
        info1 == IF useBlk
                 THEN [info EXCEPT !.nBlocks = @ + 1,
                                   !.nSize = @ + blockSize + HeaderSize]
                 ELSE [info EXCEPT !.nUndoSize = @ + ChecksumSize + blockSize + HeaderSize]
    IN
    IF g.error # ""
    THEN WriteOutcome(Store(vinfo1, nLast1, w.dirty, g.disk, g.m),
                      nFile, 0, g.error, FALSE, g.r.size, 0)
    ELSE WriteOutcome(Store([vinfo1 EXCEPT ![nFile + 1] = info1], nLast1,
                            w.dirty \cup {nFile},
                            [g.disk EXCEPT ![type][nFile].data = d4], g.m),
                      nFile, posInFile + HeaderSize, "", FALSE, g.r.size,
                      posInFile + HeaderSize + blockSize + extra)

\* a file that counts as full as soon as the record fills it to the limit
selectFileTooEarly(w, blockSize, nFile0, type) ==
    LET useBlk == type = ForwardBlock
        first == Len(w.vinfo) <= w.nLast
        full == /\ ~first
                /\ useBlk
                /\ w.vinfo[w.nLast + 1].nSize + blockSize + HeaderSize
                       >= MAX_BLOCKFILE_SIZE
        wantNew == ~first /\ ~full /\ ~useBlk /\ w.nLast < nFile0
        nLast1 == IF full THEN w.nLast + 1
                  ELSE IF wantNew THEN Max(w.nLast + 1, nFile0)
                  ELSE w.nLast
    IN  [newFile |-> first \/ full \/ wantNew,
         nLast |-> nLast1,
         vinfo |-> IF first \/ full \/ wantNew
                   THEN Resize(w.vinfo, nLast1 + 1, NewFileInfo)
                   ELSE w.vinfo,
         nFile |-> IF useBlk THEN nLast1 ELSE nFile0]

\* lines 653-670: the file the record goes to; nFile0 is pos.nFile as passed
selectFile(w, blockSize, nFile0, type) ==
    LET useBlk == type = ForwardBlock
        first == Len(w.vinfo) <= w.nLast
        full == /\ ~first
                /\ useBlk
                /\ w.vinfo[w.nLast + 1].nSize + blockSize + HeaderSize
                       > MAX_BLOCKFILE_SIZE
        wantNew == ~first /\ ~full /\ ~useBlk /\ w.nLast < nFile0
        nLast1 == IF full THEN w.nLast + 1
                  ELSE IF wantNew THEN Max(w.nLast + 1, nFile0)
                  ELSE w.nLast
    IN  [newFile |-> first \/ full \/ wantNew,
         nLast |-> nLast1,
         vinfo |-> IF first \/ full \/ wantNew
                   THEN Resize(w.vinfo, nLast1 + 1, NewFileInfo)
                   ELSE w.vinfo,
         nFile |-> IF useBlk THEN nLast1 ELSE nFile0]

\* Blocks::DBPrivate::writeBlock, lines 647-744; nFile0 is pos.nFile as passed
writeBlock(w, blockSize, payload, nFile0, type, blockHash) ==
    LET useBlk == type = ForwardBlock
        sel == selectFile(w, blockSize, nFile0, type)
        nFile == sel.nFile
    IN
    IF ~(nFile <= sel.nLast) \/ ~(Len(sel.vinfo) > nFile)
    THEN WriteOutcome(Store(sel.vinfo, sel.nLast, w.dirty, w.disk, w.m),
                      nFile, 0, "assert", TRUE, 0, 0)
    ELSE LET create == \/ sel.newFile
                       \/ ~useBlk /\ sel.vinfo[nFile + 1].nUndoSize = 0
             newFileSize == Max(blockSize + HeaderSize,
                                IF useBlk THEN BLOCKFILE_CHUNK_SIZE
                                ELSE UNDOFILE_CHUNK_SIZE)
             dsk1 == IF create THEN CreateFile(w.disk, type, nFile, newFileSize)
                     ELSE w.disk
             r == mapFile(w.m, nFile, type, dsk1, sel.nLast)
         IN  IF r.buf = 0
             THEN WriteOutcome(Store(sel.vinfo, sel.nLast, w.dirty, dsk1, r.m),
                               nFile, 0, "Failed to open file", FALSE, 0, 0)
             ELSE IF ~r.writable
             THEN WriteOutcome(Store(sel.vinfo, sel.nLast, w.dirty, dsk1, r.m),
                               nFile, 0, "File is not writable", FALSE, r.size, 0)
             ELSE writeRecord(w, sel.vinfo, sel.nLast, dsk1, r, nFile, blockSize,
                              payload, type, blockHash)

\* a block hash other than blockHash
OtherHash(blockHash) == blockHash + 1

\* the state the store is in after construction on an empty blocks directory
FileInit ==
    /\ vinfoBlockFile = <<>>
    /\ nLastBlockFile = 0
    /\ setDirtyFileInfo = {}
    /\ disk = [t \in BlockTypes |-> [f \in FileIndexes |-> NoFile]]
    /\ datafiles = <<>>
    /\ revertDatafiles = <<>>
    /\ fileHistory = <<>>
    /\ nextDataFile = 0
    /\ nCalls = 0
    /\ written = {}

CurrentMapper == Mapper(datafiles, revertDatafiles, fileHistory, nextDataFile)

CurrentStore ==
    Store(vinfoBlockFile, nLastBlockFile, setDirtyFileInfo, disk, CurrentMapper)

SetMapper(m) ==
    /\ datafiles' = m.datafiles
    /\ revertDatafiles' = m.revertDatafiles
    /\ fileHistory' = m.fileHistory
    /\ nextDataFile' = m.nextDataFile

\* the effect of one call of DBPrivate::writeBlock on the store
Written(o, op, type, blockSize, nFile0, blockHash) ==
    /\ vinfoBlockFile' = o.w.vinfo
    /\ nLastBlockFile' = o.w.nLast
    /\ setDirtyFileInfo' = o.w.dirty
    /\ disk' = o.w.disk
    /\ SetMapper(o.w.m)
    /\ nCalls' = nCalls + 1
    /\ aborted' = o.abort
    /\ written' = IF o.error = ""
                  THEN written \cup {[type |-> type, nFile |-> o.nFile,
                                      nPos |-> o.nPos, size |-> blockSize,
                                      payload |-> PayloadOf(nCalls + 1),
                                      hash |-> blockHash]}
                  ELSE written
    /\ last' = [op |-> op, size |-> blockSize, fileIndex |-> nFile0,
                error |-> o.error, nFile |-> o.nFile, nPos |-> o.nPos,
                mapped |-> o.mapped, endOffset |-> o.endOffset]

\* Blocks::DB::writeBlock, lines 365-369
WriteBlock(blockSize) ==
    /\ ~aborted
    /\ nCalls < MaxWrites
    /\ Written(writeBlock(CurrentStore, blockSize, PayloadOf(nCalls + 1), 0,
                          ForwardBlock, 0),
               "writeBlock", ForwardBlock, blockSize, 0, 0)
    /\ UNCHANGED chainVars
    /\ UNCHANGED restVars

\* Blocks::DB::writeUndoBlock, lines 371-379
WriteUndoBlock(blockSize, fileIndex) ==
    /\ ~aborted
    /\ nCalls < MaxWrites
    /\ Written(writeBlock(CurrentStore, blockSize, PayloadOf(nCalls + 1),
                          fileIndex, RevertBlock, BlockHashOf(nCalls + 1)),
               "writeUndoBlock", RevertBlock, blockSize, fileIndex,
               BlockHashOf(nCalls + 1))
    /\ UNCHANGED chainVars
    /\ UNCHANGED restVars

Loaded(r, op, pos, blockHash) ==
    /\ SetMapper(r.m)
    /\ last' = [op |-> op, hash |-> blockHash, error |-> r.error,
                data |-> r.data, size |-> r.size]
    /\ UNCHANGED <<vinfoBlockFile, nLastBlockFile, setDirtyFileInfo, disk,
                   nCalls, written, aborted>>
    /\ UNCHANGED chainVars
    /\ UNCHANGED restVars

PosOf(w) == [nFile |-> w.nFile, nPos |-> w.nPos]

\* Blocks::DB::loadBlock, lines 346-349
LoadBlock(w) ==
    /\ ~aborted
    /\ w.type = ForwardBlock
    /\ Loaded(loadBlock(CurrentMapper, PosOf(w), ForwardBlock, 0, disk,
                        nLastBlockFile),
              "loadBlock", PosOf(w), 0)

\* Blocks::DB::loadUndoBlock, lines 351-354
LoadUndoBlock(w, origBlockHash) ==
    /\ ~aborted
    /\ w.type = RevertBlock
    /\ Loaded(loadBlock(CurrentMapper, PosOf(w), RevertBlock, origBlockHash,
                        disk, nLastBlockFile),
              "loadUndoBlock", PosOf(w), origBlockHash)

\* what a rev file holds at the place of the undo record w
StoredPayload(w) == ReadBytes(disk[w.type][w.nFile].data, w.nPos, w.size, "data")
StoredChecksum(w) ==
    ReadBytes(disk[w.type][w.nFile].data, w.nPos + w.size, ChecksumSize, "hash")

\* a payload that no write call hands in
Altered(payload) == payload + MaxWrites

Intact(w) ==
    /\ StoredPayload(w) = w.payload
    /\ w.type = RevertBlock => StoredChecksum(w) = Checksum(w.hash, w.payload)

\* the medium alters the stored payload or the stored checksum of one undo
\* record; each of the two is altered at most once
Corrupt(w, kind, val) ==
    /\ ~aborted
    /\ w.type = RevertBlock
    /\ \A x \in written \ {w} : Intact(x)
    /\ \/ /\ kind = "data"
          /\ StoredPayload(w) = w.payload
          /\ val = Altered(w.payload)
          /\ disk' = [disk EXCEPT ![w.type][w.nFile].data =
                         memcpy(@, w.nPos, w.size, "data", val)]
       \/ /\ kind = "hash"
          /\ StoredChecksum(w) = Checksum(w.hash, w.payload)
          /\ val \in {0, Checksum(w.hash, Altered(w.payload))}
          /\ disk' = [disk EXCEPT ![w.type][w.nFile].data =
                         memcpy(@, w.nPos + w.size, ChecksumSize, "hash", val)]
    /\ UNCHANGED <<vinfoBlockFile, nLastBlockFile, setDirtyFileInfo, datafiles,
                   revertDatafiles, fileHistory, nextDataFile, nCalls, written,
                   aborted, last>>
    /\ UNCHANGED chainVars
    /\ UNCHANGED restVars

(***************************************************************************)
(* Part 3 -- the key-value store of the index                              *)
(***************************************************************************)
\* a key that the store does not hold
Absent == -1

\* the records whose index entries the batches of a run carry
BatchRecords == {Genesis, Genesis + 1}

\* the store after construction on an empty directory: no 'f' key, no 'l'
\* key, no 'b' key, no 'R' key
EmptyDB ==
    [f |-> [n \in FileIndexes |-> Absent], l |-> Absent, b |-> {}, R |-> Absent]

\* no batch was written yet
NoBatch == [fileInfo |-> {}, nLastFile |-> Absent, blockinfo |-> {}]

\* CDBBatch as filled by lines 192-199
CDBBatch(fileInfo, nLastFile, blockinfo) ==
    [fileInfo |-> fileInfo, nLastFile |-> nLastFile, blockinfo |-> blockinfo]

\* Blocks::DB::WriteBatchSync, lines 191-201: the store after the batch
WriteBatchSync(d, fileInfo, nLastFile, blockinfo) ==
    [d EXCEPT !.f = [n \in FileIndexes |->
                        IF \E it \in fileInfo : it[1] = n
                        THEN (CHOOSE it \in fileInfo : it[1] = n)[2]
                        ELSE @[n]],
              !.l = nLastFile,
              !.b = @ \cup blockinfo]

\* Blocks::DB::appendBlock, lines 460-466
appendBlock(d, block, lastBlockFile) ==
    [db |-> WriteBatchSync(d, {}, lastBlockFile, {block}),
     batch |-> CDBBatch({}, lastBlockFile, {block})]

MetaInit ==
    /\ db = EmptyDB
    /\ batch = NoBatch

\* the files a caller can hand to WriteBatchSync, each with its FileInfo
FileInfos == {<<n, vinfoBlockFile[n + 1]>> : n \in 0..(Len(vinfoBlockFile) - 1)}

\* a call of WriteBatchSync by the layer that flushes the state; that layer
\* hands in the FileInfo of the file it names as the last one
CallWriteBatchSync(fileInfo, nLastFile, blockinfo) ==
    /\ ~aborted
    /\ fileInfo \subseteq FileInfos
    /\ \E it \in fileInfo : it[1] = nLastFile
    /\ db' = WriteBatchSync(db, fileInfo, nLastFile, blockinfo)
    /\ batch' = CDBBatch(fileInfo, nLastFile, blockinfo)
    /\ UNCHANGED <<aborted, last, nReconsider, threadVars>>
    /\ UNCHANGED <<chainVars, fileVars, reindexVars>>

AppendBlock(block, lastBlockFile) ==
    /\ ~aborted
    /\ LET o == appendBlock(db, block, lastBlockFile) IN
        /\ db' = o.db
        /\ batch' = o.batch
    /\ UNCHANGED <<aborted, last, nReconsider, threadVars>>
    /\ UNCHANGED <<chainVars, fileVars, reindexVars>>

MetaNext ==
    \/ \E blockSize \in BlockSizes : WriteBlock(blockSize)
    \/ \E fileInfo \in SUBSET FileInfos, nLastFile \in 0..MaxFileIndex,
          blockinfo \in SUBSET BatchRecords :
          CallWriteBatchSync(fileInfo, nLastFile, blockinfo)
    \/ \E block \in BatchRecords, lastBlockFile \in 0..MaxFileIndex :
          AppendBlock(block, lastBlockFile)

(***************************************************************************)
(* Part 4 -- the reindex worker                                            *)
(***************************************************************************)
\* instances constructed on the same store after the first one
MaxRestarts == 1
\* submissions the validation engine holds before waitForSpace() blocks
QueueSize == 1

NoReindex == "NoReindex"
ScanningFiles == "ScanningFiles"
ParsingBlocks == "ParsingBlocks"

\* Blocks::DB::DB, lines 170-179: the state read from the 'R' key
ReindexingOf(d) ==
    IF d.R = Absent THEN NoReindex
    ELSE IF d.R = 1 THEN ScanningFiles
    ELSE ParsingBlocks

\* Blocks::DB::setReindexing, lines 282-298
setReindexing(cur, d, state) ==
    IF cur = state
    THEN [reindexing |-> cur, db |-> d]
    ELSE [reindexing |-> state,
          db |-> [d EXCEPT !.R = IF state = NoReindex THEN Absent
                                 ELSE IF state = ScanningFiles THEN 1
                                 ELSE 2]]

\* a start of the importer that does not look at the state
importerStartsAlways(state) == TRUE

\* Blocks::DB::startBlockImporter, line 162
importerStarts(state) == state # NoReindex

\* the thread of reimportBlockFiles: where it is, and the locals of
\* reimportBlockFiles and LoadExternalBlockFile
NoWorker ==
    [pc |-> "none", nFile |-> 0, buf |-> 0, end |-> 0, nBlocks |-> 0, nSize |-> 0]

NoValidation == [pending |-> 0, submitted |-> << >>]

\* memchr for the first byte of the magic word in the n bytes from buf on;
\* payloads and length fields hold no such byte
memchr(data, buf, n) ==
    LET hits == {e.off : e \in {x \in data : /\ x.kind = "magic"
                                             /\ buf <= x.off
                                             /\ x.off < buf + n}}
    IN  IF hits = {} THEN [found |-> FALSE, at |-> 0]
        ELSE [found |-> TRUE, at |-> CHOOSE o \in hits : \A q \in hits : o <= q]

\* a scan loop whose search never gives up
scanStuck(data, w) ==
    [w |-> w, submit |-> FALSE, pos |-> [nFile |-> w.nFile, nPos |-> 0]]

\* one iteration of the loop of LoadExternalBlockFile, lines 79-96
scanIteration(data, w) ==
    LET p == memchr(data, w.buf, (w.end - w.buf) \div 4)
        blockSize == ReadSize(data, p.at + 4)
        pos == [nFile |-> w.nFile, nPos |-> p.at + HeaderSize]
    IN  IF ~p.found
        THEN [w |-> [w EXCEPT !.pc = "scanned"], submit |-> FALSE, pos |-> pos]
        ELSE IF blockSize < 80
        THEN [w |-> [w EXCEPT !.buf = p.at + 4], submit |-> FALSE, pos |-> pos]
        ELSE [w |-> [w EXCEPT !.buf = pos.nPos + blockSize,
                              !.nBlocks = @ + 1,
                              !.nSize = pos.nPos + blockSize],
              submit |-> TRUE, pos |-> pos]

\* Blocks::DBPrivate::foundBlockFile, lines 756-767
foundBlockFile(vinfo, nLast, index, info) ==
    LET nLast1 == IF nLast < index THEN index ELSE nLast
        vinfo1 == IF Len(vinfo) <= nLast1
                  THEN Resize(vinfo, nLast1 + 1, NewFileInfo)
                  ELSE vinfo
    IN  [vinfo |-> [vinfo1 EXCEPT ![index + 1].nBlocks = info.nBlocks,
                                  ![index + 1].nSize = info.nSize],
         nLast |-> nLast1]

\* the file that reimportBlockFiles scans next, line 116
nextFile(nFile) == nFile + 1

ReindexInit ==
    /\ reindexing = NoReindex
    /\ worker = NoWorker
    /\ closingDown = FALSE
    /\ validation = NoValidation
    /\ nRestarts = 0

\* Blocks::DB::startBlockImporter, lines 160-164
StartBlockImporter ==
    /\ ~aborted
    /\ worker.pc = "none"
    /\ worker' = [NoWorker EXCEPT !.pc = IF importerStarts(reindexing)
                                         THEN "start" ELSE "idle"]
    /\ UNCHANGED <<reindexing, closingDown, validation, nRestarts>>
    /\ UNCHANGED <<aborted, last, nReconsider, threadVars>>
    /\ UNCHANGED <<chainVars, fileVars, metaVars>>

\* reimportBlockFiles, lines 109-110
WorkerBegin ==
    /\ worker.pc = "start"
    /\ worker' = [worker EXCEPT !.pc = IF reindexing = ScanningFiles
                                       THEN "open" ELSE "wait",
                                !.nFile = 0]
    /\ UNCHANGED <<reindexing, closingDown, validation, nRestarts>>
    /\ UNCHANGED <<aborted, last, nReconsider, threadVars>>
    /\ UNCHANGED <<chainVars, fileVars, metaVars>>

\* lines 112 and 68-78; when the file cannot be mapped, lines 113 and 118
OpenFile ==
    /\ worker.pc = "open"
    /\ LET r == loadBlockFile(CurrentMapper, worker.nFile, disk, nLastBlockFile)
           s == setReindexing(reindexing, db, ParsingBlocks)
       IN  /\ SetMapper(r.m)
           /\ IF r.valid
              THEN /\ worker' = [worker EXCEPT !.pc = "scan", !.buf = 0,
                                               !.end = r.size, !.nBlocks = 0,
                                               !.nSize = 0]
                   /\ UNCHANGED <<reindexing, db>>
              ELSE /\ worker' = [worker EXCEPT !.pc = "wait"]
                   /\ reindexing' = s.reindexing
                   /\ db' = s.db
    /\ UNCHANGED <<closingDown, validation, nRestarts, batch>>
    /\ UNCHANGED <<vinfoBlockFile, nLastBlockFile, setDirtyFileInfo, disk,
                   nCalls, written>>
    /\ UNCHANGED <<aborted, last, nReconsider, threadVars>>
    /\ UNCHANGED chainVars

\* lines 79-96: waitForSpace() returns when the queue has room
ScanStep ==
    /\ worker.pc = "scan"
    /\ worker.buf < worker.end
    /\ LET o == scanIteration(disk[ForwardBlock][worker.nFile].data, worker) IN
        /\ o.submit => validation.pending < QueueSize
        /\ worker' = o.w
        /\ validation' = IF o.submit
                         THEN [pending |-> validation.pending + 1,
                               submitted |-> Append(validation.submitted, o.pos)]
                         ELSE validation
    /\ UNCHANGED <<reindexing, closingDown, nRestarts>>
    /\ UNCHANGED <<aborted, last, nReconsider, threadVars>>
    /\ UNCHANGED <<chainVars, fileVars, metaVars>>

\* lines 97-102 and 114-116
FileDone ==
    /\ \/ worker.pc = "scanned"
       \/ worker.pc = "scan" /\ worker.buf >= worker.end
    /\ LET f == foundBlockFile(vinfoBlockFile, nLastBlockFile, worker.nFile,
                               worker) IN
        IF worker.nBlocks > 0
        THEN /\ vinfoBlockFile' = f.vinfo
             /\ nLastBlockFile' = f.nLast
        ELSE UNCHANGED <<vinfoBlockFile, nLastBlockFile>>
    /\ worker' = IF closingDown
                 THEN [worker EXCEPT !.pc = "returned"]
                 ELSE [worker EXCEPT !.pc = "open", !.nFile = nextFile(@)]
    /\ UNCHANGED <<reindexing, closingDown, validation, nRestarts>>
    /\ UNCHANGED <<setDirtyFileInfo, disk, datafiles, revertDatafiles,
                   fileHistory, nextDataFile, nCalls, written>>
    /\ UNCHANGED <<aborted, last, nReconsider, threadVars>>
    /\ UNCHANGED <<chainVars, metaVars>>

\* lines 120-121: waitValidationFinished() returns when nothing is pending
WaitValidationFinished ==
    /\ worker.pc = "wait"
    /\ validation.pending = 0
    /\ LET s == setReindexing(reindexing, db, NoReindex) IN
        /\ reindexing' = s.reindexing
        /\ db' = s.db
    /\ worker' = [worker EXCEPT !.pc = "done"]
    /\ UNCHANGED <<closingDown, validation, nRestarts, batch>>
    /\ UNCHANGED <<aborted, last, nReconsider, threadVars>>
    /\ UNCHANGED <<chainVars, fileVars>>

\* the validation engine finishes one submitted block
Validate ==
    /\ validation.pending > 0
    /\ validation' = [validation EXCEPT !.pending = @ - 1]
    /\ UNCHANGED <<reindexing, worker, closingDown, nRestarts>>
    /\ UNCHANGED <<aborted, last, nReconsider, threadVars>>
    /\ UNCHANGED <<chainVars, fileVars, metaVars>>

\* the process is asked to shut down; the call is recorded with what the
\* worker had submitted and the file it was at
StartShutdown ==
    /\ ~closingDown
    /\ closingDown' = TRUE
    /\ last' = [op |-> "StartShutdown", submitted |-> Len(validation.submitted),
                nFile |-> worker.nFile, pc |-> worker.pc]
    /\ UNCHANGED <<reindexing, worker, validation, nRestarts>>
    /\ UNCHANGED <<aborted, nReconsider, threadVars>>
    /\ UNCHANGED <<chainVars, fileVars, metaVars>>

\* the process ends and a new instance is constructed on the same store and
\* the same blocks directory, lines 166-181
Restart ==
    /\ closingDown
    /\ nRestarts < MaxRestarts
    /\ nRestarts' = nRestarts + 1
    /\ reindexing' = ReindexingOf(db)
    /\ worker' = NoWorker
    /\ closingDown' = FALSE
    /\ validation' = NoValidation
    /\ vinfoBlockFile' = <<>>
    /\ nLastBlockFile' = 0
    /\ setDirtyFileInfo' = {}
    /\ datafiles' = <<>>
    /\ revertDatafiles' = <<>>
    /\ fileHistory' = <<>>
    /\ UNCHANGED <<disk, nextDataFile, nCalls, written>>
    /\ UNCHANGED <<aborted, last, nReconsider, threadVars>>
    /\ UNCHANGED <<chainVars, metaVars>>

\* the steps of the worker thread
WorkerNext ==
    \/ WorkerBegin
    \/ OpenFile
    \/ ScanStep
    \/ FileDone
    \/ WaitValidationFinished

\* the blk files are written before the importer is started
WriteBeforeImport(blockSize) ==
    /\ worker.pc = "none"
    /\ nRestarts = 0
    /\ WriteBlock(blockSize)

ReindexLiveNext ==
    \/ \E blockSize \in BlockSizes : WriteBeforeImport(blockSize)
    \/ StartBlockImporter
    \/ WorkerNext
    \/ Validate

ReindexNext ==
    \/ ReindexLiveNext
    \/ StartShutdown
    \/ Restart

(***************************************************************************)
(* Part 5 -- threads on the file mapper                                    *)
(***************************************************************************)
\* threads that call into the store at the same time
NumThreads == 2
\* operations the threads begin in one run
MaxOps == 4

Threads == 1..NumThreads
NoThread == 0

\* the DataFile objects and the buffers of a run: those of the ten files
\* opened before the threads start, and two per operation
ObjectIds == 1..(HistorySize + 2 * MaxOps)

\* a DataFile that was never allocated; DataFile::buffer is a weak pointer
NoObject == [state |-> "none", buffer |-> 0]

\* a buffer that was never handed out
NoView == [df |-> 0, type |-> ForwardBlock, fileIndex |-> 0, strong |-> 0,
           size |-> 0]

\* a thread outside the store: pc is the line it is at, file the file it works
\* on, view the buffer it holds, old the buffer it is releasing, ret the place
\* it goes on from, size and writable the out-parameters of mapFile
IdleThread ==
    [pc |-> "idle", file |-> [type |-> ForwardBlock, fileIndex |-> 0],
     view |-> 0, old |-> 0, ret |-> "idle", size |-> 0, writable |-> FALSE]

NoLocks == [writer |-> NoThread, mapper |-> NoThread, index |-> NoThread]

ThreadInit ==
    /\ threads = [t \in Threads |-> IdleThread]
    /\ locks = NoLocks
    /\ heap = [o \in ObjectIds |-> NoObject]
    /\ views = [o \in ObjectIds |-> NoView]
    /\ nOps = 0

FileNext ==
    \/ \E blockSize \in BlockSizes : WriteBlock(blockSize)
    \/ \E blockSize \in UndoSizes, fileIndex \in 0..MaxFileIndex :
          WriteUndoBlock(blockSize, fileIndex)
    \/ \E w \in written : LoadBlock(w)
    \/ \E w \in written : \E origBlockHash \in {w.hash, OtherHash(w.hash)} :
          LoadUndoBlock(w, origBlockHash)
    \/ \E w \in written, kind \in {"data", "hash"},
          val \in 0..Checksum(MaxWrites + 1, 2 * MaxWrites) : Corrupt(w, kind, val)

ChainNext ==
    \/ \E block \in Records : AppendHeader(block)
    \/ \E r \in Records, flag \in BLOCK_FAILED_MASK : MarkFailed(r, flag)

Init ==
    /\ ChainInit
    /\ FileInit
    /\ MetaInit
    /\ ReindexInit
    /\ nReconsider = 0
    /\ ThreadInit
    /\ aborted = FALSE
    /\ last = NoCall

SpecChain == Init /\ [][ChainNext]_vars

\* the file store does not look at the header tree: one tree stands for all
InitFile ==
    /\ Init
    /\ pprev = [r \in Records |-> r - 1]
    /\ nWork = [r \in Records |-> 1]

SpecFile == InitFile /\ [][FileNext]_vars

SpecMeta == InitFile /\ [][MetaNext]_vars

\* the header tree before a run with reconsiderBlock: the work plays no part
InitReconsider ==
    /\ Init
    /\ nWork = [r \in Records |-> 1]

\* the headers arrive once each, parents first; reconsiderBlock does not
\* look at the tips
AppendNew(block) ==
    /\ block = Cardinality(appended) + 1
    /\ AppendHeader(block)

ReconsiderNext ==
    \/ \E block \in Records : AppendNew(block)
    \/ \E r \in Records, flag \in BLOCK_FAILED_MASK : MarkFailed(r, flag)
    \/ \E pindex \in Records : ReconsiderBlock(pindex)

SpecReconsider == InitReconsider /\ [][ReconsiderNext]_vars

\* the orders in which the index map can hand out its records
Orders == {o \in [1..NumRecords -> Records] :
              \A i, j \in 1..NumRecords : o[i] = o[j] => i = j}

\* lines 270-272: appendHeader for every record, in the order of the map
RECURSIVE appendAll(_, _)
appendAll(o, order) ==
    IF order = << >> \/ o.abort THEN o
    ELSE appendAll(appendHeader(ChainState(o.tips, o.chain, o.best), Head(order)),
                   Tail(order))

\* the failure flags of a persisted index: the genesis is valid and every
\* descendant of a failed record carries a flag itself
PersistedStatus ==
    {st \in [Records -> {{}, {FAILED_VALID}, {FAILED_CHILD}}] :
        /\ st[Genesis] = {}
        /\ Cardinality({r \in Records : st[r] # {}}) <= MaxFailed
        /\ \A r \in Records \ {Genesis} :
              /\ st[pprev[r]] # {} => st[r] # {}
              /\ st[r] = {FAILED_CHILD} => st[pprev[r]] # {}}

\* an instance constructed on a store that holds a header tree
InitLoad ==
    /\ pprev \in Trees
    /\ nWork \in Works
    /\ nStatus \in PersistedStatus
    /\ headerChainTips = << >>
    /\ headersChain = << >>
    /\ pindexBestHeader = nullptr
    /\ appended = {}
    /\ FileInit
    /\ MetaInit
    /\ ReindexInit
    /\ nReconsider = 0
    /\ ThreadInit
    /\ aborted = FALSE
    /\ last = NoCall

\* Blocks::DB::CacheAllBlockInfos, lines 226-275, on records that name no
\* data file (maxFile stays 0)
CacheAllBlockInfos(order) ==
    /\ ~aborted
    /\ appended = {}
    /\ LET o == appendAll(Outcome(headerChainTips, headersChain,
                                  pindexBestHeader, FALSE, FALSE), order) IN
        /\ headerChainTips' = o.tips
        /\ headersChain' = o.chain
        /\ pindexBestHeader' = o.best
        /\ aborted' = o.abort
    /\ appended' = Records
    /\ datafiles' = Resize(datafiles, 0, NoDataFile)
    /\ revertDatafiles' = Resize(revertDatafiles, 0, NoDataFile)
    /\ last' = [op |-> "CacheAllBlockInfos", block |-> order[1], ret |-> TRUE]
    /\ UNCHANGED <<pprev, nWork, nStatus>>
    /\ UNCHANGED <<vinfoBlockFile, nLastBlockFile, setDirtyFileInfo, disk,
                   fileHistory, nextDataFile, nCalls, written>>
    /\ UNCHANGED restVars

LoadNext == \E order \in Orders : CacheAllBlockInfos(order)

SpecLoad == InitLoad /\ [][LoadNext]_vars

\* an instance constructed on a store whose 'R' key a former run or the
\* reindex option has set
InitReindex ==
    /\ ChainInit
    /\ pprev = [r \in Records |-> r - 1]
    /\ nWork = [r \in Records |-> 1]
    /\ FileInit
    /\ \E R \in {Absent, 1, 2} : db = [EmptyDB EXCEPT !.R = R]
    /\ batch = NoBatch
    /\ reindexing = ReindexingOf(db)
    /\ worker = NoWorker
    /\ closingDown = FALSE
    /\ validation = NoValidation
    /\ nRestarts = 0
    /\ nReconsider = 0
    /\ ThreadInit
    /\ aborted = FALSE
    /\ last = NoCall

SpecReindex == InitReindex /\ [][ReindexNext]_vars

\* the sizes written before a scan: a record shorter than a block header, a
\* block of the header alone, and a block that ends 184 bytes before the end
\* of the first chunk of the file
ScanSizes == {79, 80, BLOCKFILE_CHUNK_SIZE - 184}

\* an instance that is to scan the blk files
InitScan ==
    /\ InitReindex
    /\ db.R = 1

ScanNext ==
    \/ \E blockSize \in ScanSizes : WriteBeforeImport(blockSize)
    \/ StartBlockImporter
    \/ WorkerNext
    \/ Validate

SpecScan == InitScan /\ [][ScanNext]_vars

\* views of a file that was viewed before, in one run of mapFile calls
MaxReviews == 1

\* the blk and rev files of a store, in the order a run first views them
FileOrder ==
    [k \in 1..(2 * Cardinality(FileIndexes)) |->
        [type |-> IF k % 2 = 1 THEN ForwardBlock ELSE RevertBlock,
         fileIndex |-> (k - 1) \div 2]]

RangeOf(seq) == {seq[i] : i \in 1..Len(seq)}

\* the distinct files viewed so far, the most recently viewed first
Recent == IF last.op = "mapFile" THEN last.recent ELSE << >>
Reviews == IF last.op = "mapFile" THEN last.reviews ELSE 0

\* an instance constructed on a store that holds every blk and rev file
InitMap ==
    /\ ChainInit
    /\ pprev = [r \in Records |-> r - 1]
    /\ nWork = [r \in Records |-> 1]
    /\ vinfoBlockFile = [k \in 1..Cardinality(FileIndexes) |->
                            [nBlocks |-> 0, nSize |-> 0, nUndoSize |-> 0]]
    /\ nLastBlockFile = Cardinality(FileIndexes) - 1
    /\ setDirtyFileInfo = {}
    /\ disk = [t \in BlockTypes |-> [f \in FileIndexes |->
                  [exists |-> TRUE,
                   size |-> IF t = ForwardBlock THEN BLOCKFILE_CHUNK_SIZE
                            ELSE UNDOFILE_CHUNK_SIZE,
                   data |-> {}]]]
    /\ datafiles = <<>>
    /\ revertDatafiles = <<>>
    /\ fileHistory = <<>>
    /\ nextDataFile = 0
    /\ nCalls = 0
    /\ written = {}
    /\ MetaInit
    /\ ReindexInit
    /\ nReconsider = 0
    /\ ThreadInit
    /\ aborted = FALSE
    /\ last = NoCall

\* a caller views a file and drops the view: Blocks::DBPrivate::mapFile,
\* lines 769-831, recorded with the files viewed before the call
MapFile(type, fileIndex) ==
    LET file == [type |-> type, fileIndex |-> fileIndex]
        seen == file \in RangeOf(Recent)
        r == mapFile(CurrentMapper, fileIndex, type, disk, nLastBlockFile)
    IN
    /\ IF seen THEN Reviews < MaxReviews
               ELSE file = FileOrder[Len(Recent) + 1]
    /\ SetMapper(r.m)
    /\ last' = [op |-> "mapFile", file |-> file, buf |-> r.buf,
                opened |-> r.m.nextDataFile # nextDataFile,
                recentlyUsed |->
                    \E i \in 1..Len(Recent) :
                        i <= HistorySize /\ Recent[i] = file,
                recent |-> <<file>> \o SelectSeq(Recent, LAMBDA x : x # file),
                reviews |-> IF seen THEN Reviews + 1 ELSE Reviews]
    /\ UNCHANGED <<vinfoBlockFile, nLastBlockFile, setDirtyFileInfo, disk,
                   nCalls, written>>
    /\ UNCHANGED aborted
    /\ UNCHANGED chainVars
    /\ UNCHANGED restVars

MapNext == \E type \in BlockTypes, fileIndex \in FileIndexes : MapFile(type, fileIndex)

SpecMap == InitMap /\ [][MapNext]_vars

\* the mapper as the threads share it: the slot vectors, the history, the
\* DataFile objects and the buffers; failed is a failed assert or a crash
Shared(dfs, rdfs, history, next, hp, vw, failed) ==
    [datafiles |-> dfs, revertDatafiles |-> rdfs, fileHistory |-> history,
     nextDataFile |-> next, heap |-> hp, views |-> vw, failed |-> failed]

\* delete df, line 810; crash is what the build makes of a second delete
deleteDataFile(m, df, crash) ==
    IF m.heap[df].state = "alive"
    THEN [m EXCEPT !.heap[df].state = "deleted"]
    ELSE [m EXCEPT !.heap[df].state = "deleted twice", !.failed = @ \/ crash]

\* lines 800-807: the deleter of buffer v, under the mapper lock
cleanupLocked(m, v) ==
    LET c == m.views[v]
        list == ListOf(m, c.type)
    IN  IF ~(c.fileIndex < Len(list)) THEN [m EXCEPT !.failed = TRUE]
        ELSE IF list[c.fileIndex + 1].id = c.df
        THEN SetList(m, c.type, [list EXCEPT ![c.fileIndex + 1] = NoDataFile])
        ELSE m

\* a shared_ptr to buffer v goes away inside mapFile; when it was the last one
\* the deleter runs at once, the recursive lock being held
unref(m, v, crash) ==
    LET m1 == [m EXCEPT !.views[v].strong = @ - 1] IN
    IF m1.views[v].strong > 0 THEN m1
    ELSE LET m2 == cleanupLocked(m1, v) IN
         IF m2.failed THEN m2 ELSE deleteDataFile(m2, m1.views[v].df, crash)

\* Blocks::DBPrivate::mapFile, lines 776-830, under the mapper lock: the slot
\* holds a DataFile or none, the DataFile's buffer is alive or expired
mapFileLocked(m, fileIndex, type, dsk, lastFile, crash) ==
    LET useBlk == type = ForwardBlock
        list0 == ListOf(m, type)
        list1 == IF Len(list0) <= fileIndex
                 THEN Resize(list0, fileIndex + SlotReserve, NoDataFile)
                 ELSE list0
        slot == list1[fileIndex + 1]
        file == dsk[type][fileIndex]
        isNew == slot.id = 0
        buffer == IF isNew THEN 0 ELSE m.heap[slot.id].buffer
        alive == buffer # 0 /\ m.views[buffer].strong > 0
        id == m.nextDataFile + 1
        df == IF isNew THEN id ELSE slot.id
    IN
    IF alive
    THEN [m |-> [SetList(m, type, list1) EXCEPT !.views[buffer].strong = @ + 1],
          buf |-> buffer, size |-> slot.filesize, writable |-> slot.readwrite]
    ELSE IF file.exists
    THEN LET rec == [id |-> df, filesize |-> file.size,
                     readwrite |-> ~(useBlk /\ fileIndex # lastFile)]
             m1 == [SetList(m, type, [list1 EXCEPT ![fileIndex + 1] = rec])
                       EXCEPT !.nextDataFile = id,
                              !.heap[df] = [state |-> IF isNew THEN "alive"
                                                      ELSE @.state,
                                            buffer |-> id],
                              !.views[id] = [df |-> df, type |-> type,
                                             fileIndex |-> fileIndex,
                                             strong |-> 2, size |-> file.size],
                              !.fileHistory = Append(@,
                                  [type |-> type, fileIndex |-> fileIndex,
                                   id |-> df, buf |-> id])]
             m2 == IF Len(m1.fileHistory) > HistorySize
                   THEN unref([m1 EXCEPT !.fileHistory = Tail(@)],
                              Head(m1.fileHistory).buf, crash)
                   ELSE m1
         IN  [m |-> m2, buf |-> id, size |-> file.size,
              writable |-> rec.readwrite]
    ELSE LET m1 == SetList(m, type, [list1 EXCEPT ![fileIndex + 1] = NoDataFile])
         IN  [m |-> IF isNew THEN m1 ELSE deleteDataFile(m1, df, crash),
              buf |-> 0, size |-> 0, writable |-> FALSE]

\* the store the threads start on: every blk and rev file exists
AllFiles ==
    [t \in BlockTypes |-> [f \in FileIndexes |->
        [exists |-> TRUE,
         size |-> IF t = ForwardBlock THEN BLOCKFILE_CHUNK_SIZE
                  ELSE UNDOFILE_CHUNK_SIZE,
         data |-> {}]]]

LastFile == Cardinality(FileIndexes) - 1

\* the files viewed before the threads start: the last blk file first
ViewedBefore ==
    [k \in 1..HistorySize |->
        [type |-> IF k % 2 = 1 THEN ForwardBlock ELSE RevertBlock,
         fileIndex |-> LastFile - (k - 1) \div 2]]

\* the mapper after the first k of these files were viewed, each view dropped
RECURSIVE viewAll(_)
viewAll(k) ==
    IF k = 0
    THEN Shared(<<>>, <<>>, <<>>, 0, [o \in ObjectIds |-> NoObject],
                [o \in ObjectIds |-> NoView], FALSE)
    ELSE LET r == mapFileLocked(viewAll(k - 1), ViewedBefore[k].fileIndex,
                                ViewedBefore[k].type, AllFiles, LastFile, FALSE)
         IN  [r.m EXCEPT !.views[r.buf].strong = @ - 1]

\* the files the threads view: the last blk file and one not yet opened
SharedFiles ==
    {[type |-> ForwardBlock, fileIndex |-> LastFile],
     [type |-> ForwardBlock, fileIndex |-> 0]}

\* the payload of the blocks the threads write: a chunk with its header
ThreadBlockSize == BLOCKFILE_CHUNK_SIZE - HeaderSize

InitThreads ==
    /\ ChainInit
    /\ pprev = [r \in Records |-> r - 1]
    /\ nWork = [r \in Records |-> 1]
    /\ vinfoBlockFile = [k \in 1..Cardinality(FileIndexes) |-> NewFileInfo]
    /\ nLastBlockFile = LastFile
    /\ setDirtyFileInfo = {}
    /\ disk = AllFiles
    /\ LET m == viewAll(HistorySize) IN
        /\ datafiles = m.datafiles
        /\ revertDatafiles = m.revertDatafiles
        /\ fileHistory = m.fileHistory
        /\ nextDataFile = m.nextDataFile
        /\ heap = m.heap
        /\ views = m.views
    /\ threads = [t \in Threads |-> IdleThread]
    /\ locks = NoLocks
    /\ nOps = 0
    /\ nCalls = 0
    /\ written = {}
    /\ MetaInit
    /\ ReindexInit
    /\ nReconsider = 0
    /\ aborted = FALSE
    /\ last = NoCall

CurrentShared ==
    Shared(datafiles, revertDatafiles, fileHistory, nextDataFile, heap, views,
           aborted)

SetShared(m) ==
    /\ datafiles' = m.datafiles
    /\ revertDatafiles' = m.revertDatafiles
    /\ fileHistory' = m.fileHistory
    /\ nextDataFile' = m.nextDataFile
    /\ heap' = m.heap
    /\ views' = m.views
    /\ aborted' = m.failed

sharedVars ==
    <<datafiles, revertDatafiles, fileHistory, nextDataFile, heap, views, aborted>>

\* what the threads leave alone
elseVars ==
    <<chainVars, metaVars, reindexVars, nReconsider, nCalls, written>>

\* std::recursive_mutex and CCriticalSection: free, or held by the thread
CanLock(t, name) == locks[name] \in {NoThread, t}

\* std::mutex: free
CanLockPlain(name) == locks[name] = NoThread

\* a thread begins an operation at its first line
Begin(t, pc, file, ret) ==
    /\ ~aborted
    /\ threads[t].pc = "idle"
    /\ nOps < MaxOps
    /\ nOps' = nOps + 1
    /\ threads' = [threads EXCEPT ![t] =
                      [@ EXCEPT !.pc = pc, !.file = file, !.ret = ret]]
    /\ UNCHANGED <<locks, sharedVars, last, vinfoBlockFile, nLastBlockFile,
                   setDirtyFileInfo, disk>>
    /\ UNCHANGED elseVars

\* a reader calls mapFile, as loadBlock does at line 625
StartMapFile(t, file) == Begin(t, "mapFile", file, "holding")

\* line 775: the lock_guard of mapFile
MapFileLock(t) ==
    /\ ~aborted
    /\ threads[t].pc = "mapFile"
    /\ CanLock(t, "mapper")
    /\ locks' = [locks EXCEPT !.mapper = t]
    /\ threads' = [threads EXCEPT ![t].pc = "mapFile.locked"]
    /\ UNCHANGED <<sharedVars, last, nOps, vinfoBlockFile, nLastBlockFile,
                   setDirtyFileInfo, disk>>
    /\ UNCHANGED elseVars

\* lines 776-830: the body of mapFile and its return; the buffer the caller
\* held in the variable it assigns to is released after the call
MapFileBody(t) ==
    /\ ~aborted
    /\ threads[t].pc = "mapFile.locked"
    /\ \E crash \in BOOLEAN :
        LET th == threads[t]
            r == mapFileLocked(CurrentShared, th.file.fileIndex, th.file.type,
                               disk, nLastBlockFile, crash)
        IN  /\ SetShared(r.m)
            /\ threads' = [threads EXCEPT ![t] =
                              [th EXCEPT !.pc = th.ret, !.view = r.buf,
                                         !.old = th.view, !.size = r.size,
                                         !.writable = r.writable]]
            /\ last' = [op |-> "mapFile", thread |-> t, file |-> th.file,
                        buf |-> r.buf, size |-> r.size,
                        fileSize |-> disk[th.file.type][th.file.fileIndex].size,
                        error |-> IF r.m.failed THEN "assert" ELSE ""]
    /\ locks' = [locks EXCEPT !.mapper = NoThread]
    /\ UNCHANGED <<nOps, vinfoBlockFile, nLastBlockFile, setDirtyFileInfo, disk>>
    /\ UNCHANGED elseVars

\* the thread lets go of buffer v, outside the mapper lock; the last
\* reference starts the deleter, which waits at line 800
Release(t, v, ret) ==
    /\ views' = [views EXCEPT ![v].strong = @ - 1]
    /\ threads' = [threads EXCEPT ![t] =
                      IF views[v].strong = 1
                      THEN [@ EXCEPT !.pc = "cleanup", !.view = 0, !.old = v,
                                     !.ret = ret]
                      ELSE [@ EXCEPT !.pc = ret, !.view = 0, !.old = 0]]
    /\ UNCHANGED <<datafiles, revertDatafiles, fileHistory, nextDataFile, heap,
                   aborted>>

\* a reader drops the view it holds
Drop(t) ==
    /\ ~aborted
    /\ threads[t].pc = "holding"
    /\ Release(t, threads[t].view, "idle")
    /\ UNCHANGED <<locks, last, nOps, vinfoBlockFile, nLastBlockFile,
                   setDirtyFileInfo, disk>>
    /\ UNCHANGED elseVars

\* line 800: the lock_guard of the deleter
CleanupLock(t) ==
    /\ ~aborted
    /\ threads[t].pc = "cleanup"
    /\ CanLock(t, "mapper")
    /\ locks' = [locks EXCEPT !.mapper = t]
    /\ threads' = [threads EXCEPT ![t].pc = "cleanup.locked"]
    /\ UNCHANGED <<sharedVars, last, nOps, vinfoBlockFile, nLastBlockFile,
                   setDirtyFileInfo, disk>>
    /\ UNCHANGED elseVars

\* a deleter that keeps the mapper lock and reports the file to
\* foundBlockFile
CleanupBodyThenFound(t) ==
    /\ ~aborted
    /\ threads[t].pc = "cleanup.locked"
    /\ SetShared(cleanupLocked(CurrentShared, threads[t].old))
    /\ threads' = [threads EXCEPT ![t].pc = "foundBlockFile"]
    /\ UNCHANGED <<locks, last, nOps, vinfoBlockFile, nLastBlockFile,
                   setDirtyFileInfo, disk>>
    /\ UNCHANGED elseVars

\* lines 801-808: the slot is cleared when it holds the deleter's DataFile
CleanupBody(t) ==
    /\ ~aborted
    /\ threads[t].pc = "cleanup.locked"
    /\ LET m == cleanupLocked(CurrentShared, threads[t].old) IN
        /\ SetShared(m)
        /\ last' = IF m.failed
                   THEN [op |-> "cleanup", thread |-> t, error |-> "assert"]
                   ELSE last
    /\ locks' = [locks EXCEPT !.mapper = NoThread]
    /\ threads' = [threads EXCEPT ![t].pc = "cleanup.delete"]
    /\ UNCHANGED <<nOps, vinfoBlockFile, nLastBlockFile, setDirtyFileInfo, disk>>
    /\ UNCHANGED elseVars

\* line 810: delete df, outside the lock
CleanupDelete(t) ==
    /\ ~aborted
    /\ threads[t].pc = "cleanup.delete"
    /\ \E crash \in BOOLEAN :
          SetShared(deleteDataFile(CurrentShared, views[threads[t].old].df, crash))
    /\ threads' = [threads EXCEPT ![t] =
                      [@ EXCEPT !.pc = threads[t].ret, !.old = 0]]
    /\ UNCHANGED <<locks, last, nOps, vinfoBlockFile, nLastBlockFile,
                   setDirtyFileInfo, disk>>
    /\ UNCHANGED elseVars

\* a writer calls writeBlock with a block of ThreadBlockSize bytes
StartWriteBlock(t) ==
    Begin(t, "writeBlock", [type |-> ForwardBlock, fileIndex |-> 0], "idle")

\* lines 651-689: LOCK(cs_LastBlockFile), the last file has room for the
\* block, and mapFile is called for it
WriterLock(t) ==
    /\ ~aborted
    /\ threads[t].pc = "writeBlock"
    /\ CanLock(t, "writer")
    /\ Len(vinfoBlockFile) > nLastBlockFile
    /\ vinfoBlockFile[nLastBlockFile + 1].nSize + ThreadBlockSize + HeaderSize
           <= MAX_BLOCKFILE_SIZE
    /\ locks' = [locks EXCEPT !.writer = t]
    /\ threads' = [threads EXCEPT ![t] =
                      [@ EXCEPT !.pc = "mapFile",
                                !.file = [type |-> ForwardBlock,
                                          fileIndex |-> nLastBlockFile],
                                !.ret = "writeBlock.mapped"]]
    /\ UNCHANGED <<sharedVars, last, nOps, vinfoBlockFile, nLastBlockFile,
                   setDirtyFileInfo, disk>>
    /\ UNCHANGED elseVars

\* lines 690-700 and 710-717: no buffer or a read-only one throws, which
\* releases cs_LastBlockFile; else the test of the growth loop
WriterTest(t) ==
    /\ ~aborted
    /\ threads[t].pc = "writeBlock.mapped"
    /\ LET th == threads[t]
           posInFile == vinfoBlockFile[th.file.fileIndex + 1].nSize
           throws == th.view = 0 \/ ~th.writable
       IN  /\ threads' = [threads EXCEPT ![t].pc =
                             IF throws THEN IF th.view = 0 THEN "idle"
                                            ELSE "holding"
                             ELSE IF posInFile + ThreadBlockSize + HeaderSize
                                         >= th.size
                             THEN "writeBlock.grow"
                             ELSE "writeBlock.write"]
           /\ locks' = IF throws THEN [locks EXCEPT !.writer = NoThread]
                       ELSE locks
           /\ last' = IF throws
                      THEN [op |-> "writeBlock", thread |-> t,
                            error |-> IF th.view = 0 THEN "Failed to open file"
                                      ELSE "File is not writable"]
                      ELSE last
    /\ UNCHANGED <<sharedVars, nOps, vinfoBlockFile, nLastBlockFile,
                   setDirtyFileInfo, disk>>
    /\ UNCHANGED elseVars

\* line 705: the lock_guard of the growth
GrowLock(t) ==
    /\ ~aborted
    /\ threads[t].pc = "writeBlock.grow"
    /\ CanLock(t, "mapper")
    /\ locks' = [locks EXCEPT !.mapper = t]
    /\ threads' = [threads EXCEPT ![t].pc = "writeBlock.grow.locked"]
    /\ UNCHANGED <<sharedVars, last, nOps, vinfoBlockFile, nLastBlockFile,
                   setDirtyFileInfo, disk>>
    /\ UNCHANGED elseVars

\* lines 706-707: the slot is cleared and the file is resized, both before
\* the lock is released
growLocked(m, dsk, type, fileIndex, fileSize) ==
    [m |-> fileHasGrown(m, type, fileIndex),
     disk |-> ResizeFile(dsk, type, fileIndex, fileSize + BLOCKFILE_CHUNK_SIZE)]

\* lines 706-709: fileHasGrown with its assert, resize_file, the lock is
\* released and mapFile is called again
GrowBody(t) ==
    /\ ~aborted
    /\ threads[t].pc = "writeBlock.grow.locked"
    /\ LET th == threads[t]
           inRange == th.file.fileIndex < Len(datafiles)
           g == growLocked(CurrentShared, disk, th.file.type,
                           th.file.fileIndex, th.size)
       IN  IF inRange
           THEN /\ SetShared(g.m)
                /\ disk' = g.disk
                /\ last' = [op |-> "grow", thread |-> t, file |-> th.file,
                            fileSize |-> g.disk[th.file.type][th.file.fileIndex].size,
                            error |-> ""]
           ELSE /\ aborted' = TRUE
                /\ last' = [op |-> "fileHasGrown", thread |-> t,
                            error |-> "assert"]
                /\ UNCHANGED <<datafiles, revertDatafiles, fileHistory,
                               nextDataFile, heap, views, disk>>
    /\ locks' = [locks EXCEPT !.mapper = NoThread]
    /\ threads' = [threads EXCEPT ![t] =
                      [@ EXCEPT !.pc = "mapFile", !.ret = "writeBlock.remapped"]]
    /\ UNCHANGED <<nOps, vinfoBlockFile, nLastBlockFile, setDirtyFileInfo>>
    /\ UNCHANGED elseVars

\* line 709: the assignment to buf releases the buffer mapped before the growth
WriterAssign(t) ==
    /\ ~aborted
    /\ threads[t].pc = "writeBlock.remapped"
    /\ LET th == threads[t] IN
        /\ views' = [views EXCEPT ![th.old].strong = @ - 1]
        /\ threads' = [threads EXCEPT ![t] =
                          IF views[th.old].strong = 1
                          THEN [@ EXCEPT !.pc = "cleanup",
                                         !.ret = "writeBlock.mapped"]
                          ELSE [@ EXCEPT !.pc = "writeBlock.mapped", !.old = 0]]
    /\ UNCHANGED <<datafiles, revertDatafiles, fileHistory, nextDataFile, heap,
                   aborted>>
    /\ UNCHANGED <<locks, last, nOps, vinfoBlockFile, nLastBlockFile,
                   setDirtyFileInfo, disk>>
    /\ UNCHANGED elseVars

\* lines 720-743: the record is copied, the file info is moved on, the lock
\* goes with the return; the caller holds the buffer of the block
WriterWrite(t) ==
    /\ ~aborted
    /\ threads[t].pc = "writeBlock.write"
    /\ LET f == threads[t].file.fileIndex IN
        /\ vinfoBlockFile' = [vinfoBlockFile EXCEPT ![f + 1].nSize =
                                 @ + ThreadBlockSize + HeaderSize]
        /\ setDirtyFileInfo' = setDirtyFileInfo \cup {f}
        /\ last' = [op |-> "writeBlock", thread |-> t, error |-> "",
                    nFile |-> f,
                    nPos |-> vinfoBlockFile[f + 1].nSize + HeaderSize]
    /\ locks' = [locks EXCEPT !.writer = NoThread]
    /\ threads' = [threads EXCEPT ![t].pc = "holding"]
    /\ UNCHANGED <<sharedVars, nOps, nLastBlockFile, disk>>
    /\ UNCHANGED elseVars

\* the reindex scan reports a file: foundBlockFile, lines 756-767
StartFoundBlockFile(t, index) ==
    Begin(t, "foundBlockFile", [type |-> ForwardBlock, fileIndex |-> index],
          "idle")

\* line 758: LOCK(cs_LastBlockFile)
FoundLock(t) ==
    /\ ~aborted
    /\ threads[t].pc = "foundBlockFile"
    /\ CanLock(t, "writer")
    /\ locks' = [locks EXCEPT !.writer = t]
    /\ threads' = [threads EXCEPT ![t].pc = "foundBlockFile.locked"]
    /\ UNCHANGED <<sharedVars, last, nOps, vinfoBlockFile, nLastBlockFile,
                   setDirtyFileInfo, disk>>
    /\ UNCHANGED elseVars

\* lines 759-766, with the block count and the size the file info has
FoundBody(t) ==
    /\ ~aborted
    /\ threads[t].pc = "foundBlockFile.locked"
    /\ LET index == threads[t].file.fileIndex
           f == foundBlockFile(vinfoBlockFile, nLastBlockFile, index,
                               vinfoBlockFile[index + 1])
       IN  /\ vinfoBlockFile' = f.vinfo
           /\ nLastBlockFile' = f.nLast
    /\ locks' = [locks EXCEPT !.writer = NoThread]
    /\ threads' = [threads EXCEPT ![t].pc = "idle"]
    /\ UNCHANGED <<sharedVars, last, nOps, setDirtyFileInfo, disk>>
    /\ UNCHANGED elseVars

\* CacheAllBlockInfos is called on an index whose records name the last file
StartCacheAllBlockInfos(t) ==
    Begin(t, "CacheAllBlockInfos",
          [type |-> ForwardBlock, fileIndex |-> nLastBlockFile], "idle")

\* lines 263-264: both slot vectors are resized to maxFile, no lock held; a
\* thread inside the mapper lock uses the vectors at the same time, and what
\* the build makes of that is either outcome
CacheResize(t) ==
    /\ ~aborted
    /\ threads[t].pc = "CacheAllBlockInfos"
    /\ LET maxFile == threads[t].file.fileIndex
           race == locks.mapper \notin {NoThread, t}
       IN  /\ datafiles' = Resize(datafiles, maxFile, NoDataFile)
           /\ revertDatafiles' = Resize(revertDatafiles, maxFile, NoDataFile)
           /\ \E crash \in BOOLEAN : aborted' = (race /\ crash)
           /\ last' = [op |-> "resize", thread |-> t, maxFile |-> maxFile,
                       error |-> IF race THEN "data race" ELSE ""]
    /\ threads' = [threads EXCEPT ![t].pc = "CacheAllBlockInfos.resized"]
    /\ UNCHANGED <<fileHistory, nextDataFile, heap, views>>
    /\ UNCHANGED <<locks, nOps, vinfoBlockFile, nLastBlockFile,
                   setDirtyFileInfo, disk>>
    /\ UNCHANGED elseVars

\* line 266: the lock_guard on blockIndexLock
CacheLock(t) ==
    /\ ~aborted
    /\ threads[t].pc = "CacheAllBlockInfos.resized"
    /\ CanLockPlain("index")
    /\ locks' = [locks EXCEPT !.index = t]
    /\ threads' = [threads EXCEPT ![t].pc = "CacheAllBlockInfos.locked"]
    /\ UNCHANGED <<sharedVars, last, nOps, vinfoBlockFile, nLastBlockFile,
                   setDirtyFileInfo, disk>>
    /\ UNCHANGED elseVars

\* lines 267-274: appendHeader for every record, and the return
CacheBody(t) ==
    /\ threads[t].pc = "CacheAllBlockInfos.locked"
    /\ ~aborted
    /\ LET o == appendAll(Outcome(headerChainTips, headersChain,
                                  pindexBestHeader, FALSE, FALSE),
                          [i \in 1..NumRecords |-> i]) IN
        /\ headerChainTips' = o.tips
        /\ headersChain' = o.chain
        /\ pindexBestHeader' = o.best
        /\ aborted' = o.abort
    /\ appended' = Records
    /\ locks' = [locks EXCEPT !.index = NoThread]
    /\ threads' = [threads EXCEPT ![t].pc = "idle"]
    /\ UNCHANGED <<pprev, nWork, nStatus>>
    /\ UNCHANGED <<datafiles, revertDatafiles, fileHistory, nextDataFile, heap,
                   views>>
    /\ UNCHANGED <<last, nOps, vinfoBlockFile, nLastBlockFile,
                   setDirtyFileInfo, disk>>
    /\ UNCHANGED <<metaVars, reindexVars, nReconsider, nCalls, written>>

\* an operation of Blocks::Index that reads the index map, lines 493-532
StartIndexOp(t) ==
    Begin(t, "Index", [type |-> ForwardBlock, fileIndex |-> 0], "idle")

\* lines 496, 512, 520, 530: the lock_guard on blockIndexLock
IndexLock(t) ==
    /\ ~aborted
    /\ threads[t].pc = "Index"
    /\ CanLockPlain("index")
    /\ locks' = [locks EXCEPT !.index = t]
    /\ threads' = [threads EXCEPT ![t].pc = "Index.locked"]
    /\ UNCHANGED <<sharedVars, last, nOps, vinfoBlockFile, nLastBlockFile,
                   setDirtyFileInfo, disk>>
    /\ UNCHANGED elseVars

\* the map is read and the lock goes with the return
IndexBody(t) ==
    /\ ~aborted
    /\ threads[t].pc = "Index.locked"
    /\ locks' = [locks EXCEPT !.index = NoThread]
    /\ threads' = [threads EXCEPT ![t].pc = "idle"]
    /\ UNCHANGED <<sharedVars, last, nOps, vinfoBlockFile, nLastBlockFile,
                   setDirtyFileInfo, disk>>
    /\ UNCHANGED elseVars

ThreadNext ==
    \E t \in Threads :
        \/ \E file \in SharedFiles : StartMapFile(t, file)
        \/ MapFileLock(t)
        \/ MapFileBody(t)
        \/ Drop(t)
        \/ CleanupLock(t)
        \/ CleanupBody(t)
        \/ CleanupDelete(t)
        \/ StartWriteBlock(t)
        \/ WriterLock(t)
        \/ WriterTest(t)
        \/ GrowLock(t)
        \/ GrowBody(t)
        \/ WriterAssign(t)
        \/ WriterWrite(t)
        \/ \E index \in {0, LastFile} : StartFoundBlockFile(t, index)
        \/ FoundLock(t)
        \/ FoundBody(t)
        \/ StartCacheAllBlockInfos(t)
        \/ CacheResize(t)
        \/ CacheLock(t)
        \/ CacheBody(t)
        \/ StartIndexOp(t)
        \/ IndexLock(t)
        \/ IndexBody(t)

SpecThreads == InitThreads /\ [][ThreadNext]_vars

\* the worker thread and the validation engine keep running
SpecReindexFair ==
    /\ InitReindex
    /\ [][ReindexLiveNext]_vars
    /\ WF_vars(WorkerNext)
    /\ WF_vars(Validate)

(***************************************************************************)
(* Properties of the header tree                                           *)
(***************************************************************************)
TipSet(tips) == {tips[i] : i \in 1..Len(tips)}

MainTip == ChainTip(headersChain)

\* a is r or an ancestor of r
AncestorOrSelf(a, r) == GetAncestor(r, nHeight(a)) = a

HasFailedAncestorOrSelf(r) ==
    \E a \in Records : AncestorOrSelf(a, r) /\ Failed(a)

\* what a call appendHeader(block) made in the current state leads to
After(block) == appendHeader(Current, block)

\* C1: after any sequence of appendHeader calls the tip of the main chain has
\* at least the chainWork of every appended record that carries no failure
\* flag, and it is one of the entries of headerChainTips.
C1_MainTipMaximal ==
    appended # {} =>
        /\ MainTip # nullptr
        /\ \A r \in appended :
              ~Failed(r) => nChainWork(MainTip) >= nChainWork(r)
        /\ MainTip \in TipSet(headerChainTips)

\* C2: appendHeader(r) made twice leaves the same set of tips, the same main
\* tip and the same best-header pointer as appendHeader(r) made once.
C2_Idempotent ==
    \A block \in Records :
        CanAppend(block) /\ ~After(block).abort =>
            LET o1 == After(block)
                o2 == appendHeader(ChainState(o1.tips, o1.chain, o1.best), block)
            IN  /\ ~o2.abort
                /\ TipSet(o2.tips) = TipSet(o1.tips)
                /\ ChainTip(o2.chain) = ChainTip(o1.chain)
                /\ o2.best = o1.best

\* C3: appendHeader returns true exactly when the tip of the main chain after
\* the call is another record than before the call.
C3_ReturnsTrueIffMoved ==
    \A block \in Records :
        CanAppend(block) /\ ~After(block).abort =>
            (After(block).ret <=> ChainTip(After(block).chain) # MainTip)

\* C4: a valid record that does not extend the main tip and has no more
\* chainWork than it leaves the main tip alone, is on a branch of the tips
\* afterwards and makes appendHeader return false; a valid record with
\* strictly more chainWork than the main tip becomes the main tip and makes
\* appendHeader return true.
C4_TieBreaking ==
    \A block \in Records :
        CanAppend(block) /\ ~Failed(block) /\ MainTip # nullptr =>
            LET o == After(block) IN
            /\ (~AncestorOrSelf(MainTip, block)
                    /\ nChainWork(block) <= nChainWork(MainTip)) =>
                  /\ ChainTip(o.chain) = MainTip
                  /\ \E t \in TipSet(o.tips) : AncestorOrSelf(block, t)
                  /\ o.ret = FALSE
            /\ nChainWork(block) > nChainWork(MainTip) =>
                  /\ ChainTip(o.chain) = block
                  /\ o.ret = TRUE

\* the tip of the most chainWork among those of a list
IsBestOf(t, tips) ==
    /\ t \in TipSet(tips)
    /\ \A u \in TipSet(tips) : nChainWork(u) <= nChainWork(t)

\* C5: after appendHeader of a tip that has a failed ancestor-or-self, no entry
\* of the tips has a failed ancestor-or-self, the last ancestor without a
\* failure flag stands in the tips for the pruned branch, and the main tip is
\* the remaining tip of the most chainWork.
C5_InvalidBranchPruned ==
    \A block \in TipSet(headerChainTips) :
        HasFailedAncestorOrSelf(block) /\ ~After(block).abort =>
            LET o == After(block) IN
            /\ \A t \in TipSet(o.tips) : ~HasFailedAncestorOrSelf(t)
            /\ \E t \in TipSet(o.tips) :
                    AncestorOrSelf(SkipFailed(block), t)
            /\ IsBestOf(ChainTip(o.chain), o.tips)

(***************************************************************************)
(* Properties of the data files                                            *)
(***************************************************************************)
LoadOf(w, blockHash) ==
    loadBlock(CurrentMapper, PosOf(w), w.type, blockHash, disk, nLastBlockFile)

Blocks == {w \in written : w.type = ForwardBlock}
Undos == {w \in written : w.type = RevertBlock}

WriteReturned(op) == last.op = op /\ last.error = ""

\* C6: every block a writeBlock call returned a position for is read back
\* by loadBlock at that position, byte for byte and with its length, in
\* every later state: after further writes, after growth of its file and
\* after the roll-over to a new blk file.
C6_BlockRoundTrip ==
    \A w \in Blocks :
        LET r == LoadOf(w, 0) IN
        r.error = "" /\ r.data = w.payload /\ r.size = w.size

\* a block of file 0 is loaded after its file has grown and after a later
\* block went to file 1
C6_Witness ==
    /\ last.op = "loadBlock"
    /\ last.error = ""
    /\ \E w \in Blocks, x \in Blocks :
          /\ w.nFile = 0
          /\ x.nFile = 1
          /\ last.data = w.payload
          /\ disk[ForwardBlock][0].size > BLOCKFILE_CHUNK_SIZE

\* C7 as stated: loadUndoBlock(p, h) returns u when the record is as
\* written; it raises an error whenever the stored payload or the stored
\* checksum differs from what was written or another hash is passed.
C7_UndoChecksum ==
    \A w \in Undos : \A blockHash \in {w.hash, OtherHash(w.hash)} :
        LET r == LoadOf(w, blockHash) IN
        /\ Intact(w) /\ blockHash = w.hash => r.error = "" /\ r.data = w.payload
        /\ ~Intact(w) \/ blockHash # w.hash => r.error # ""

\* C7 amended: loadUndoBlock(p, h') raises an error exactly when the stored
\* checksum is not the checksum of h' and the stored payload, so it does
\* whenever exactly one of the stored payload, the stored checksum and the
\* hash passed differs from what was written; when it returns, it returns
\* the stored payload, which is u when the record is as written.
C7_UndoChecksumAmended ==
    \A w \in Undos : \A blockHash \in {w.hash, OtherHash(w.hash)} :
        LET r == LoadOf(w, blockHash)
            payloadAltered == StoredPayload(w) # w.payload
            checksumAltered == StoredChecksum(w) # Checksum(w.hash, w.payload)
            otherHash == blockHash # w.hash
        IN
        /\ r.error = "" <=>
               StoredChecksum(w) = Checksum(blockHash, StoredPayload(w))
        /\ r.error = "" => r.data = StoredPayload(w) /\ r.size = w.size
        /\ r.error # "" => r.data = 0 /\ r.size = 0
        /\ Intact(w) /\ ~otherHash => r.error = "" /\ r.data = w.payload
        /\ payloadAltered /\ ~checksumAltered /\ ~otherHash => r.error # ""
        /\ ~payloadAltered /\ checksumAltered /\ ~otherHash => r.error # ""
        /\ ~payloadAltered /\ ~checksumAltered /\ otherHash => r.error # ""

\* loadUndoBlock with the hash of the write refuses a record whose payload
\* was altered on the medium
C7_Witness ==
    /\ last.op = "loadUndoBlock"
    /\ last.error = "BlocksDB::loadUndoBlock, checkum mismatch"
    /\ \E w \in Undos :
          /\ last.hash = w.hash
          /\ StoredPayload(w) # w.payload
          /\ StoredChecksum(w) = Checksum(w.hash, w.payload)

\* C8 as stated: after a write call that returned, the blk file written to
\* satisfies NOT (nSize + 8 > MAX_BLOCKFILE_SIZE), and the offset behind the
\* record (behind the checksum for an undo record) is not greater than the
\* size of the mapping it was written through.
C8_FileSizeDiscipline ==
    /\ WriteReturned("writeBlock") =>
          /\ ~(vinfoBlockFile[last.nFile + 1].nSize + HeaderSize
                  > MAX_BLOCKFILE_SIZE)
          /\ last.endOffset <= last.mapped
    /\ WriteReturned("writeUndoBlock") => last.endOffset <= last.mapped

\* C8 amended: after a write call that returned, the blk file written to
\* satisfies NOT (nSize > MAX_BLOCKFILE_SIZE) -- a file can be filled to
\* MAX_BLOCKFILE_SIZE exactly -- and the offset behind the record (behind
\* the checksum for an undo record) is not greater than the size of the
\* mapping it was written through.
C8_FileSizeDisciplineAmended ==
    /\ WriteReturned("writeBlock") =>
          /\ ~(vinfoBlockFile[last.nFile + 1].nSize > MAX_BLOCKFILE_SIZE)
          /\ last.endOffset = vinfoBlockFile[last.nFile + 1].nSize
          /\ last.endOffset <= last.mapped
    /\ WriteReturned("writeUndoBlock") =>
          /\ last.endOffset = vinfoBlockFile[last.nFile + 1].nUndoSize
          /\ last.endOffset <= last.mapped

\* a writeBlock has filled its file to MAX_BLOCKFILE_SIZE exactly
C8_Witness ==
    /\ WriteReturned("writeBlock")
    /\ vinfoBlockFile[last.nFile + 1].nSize = MAX_BLOCKFILE_SIZE
    /\ last.mapped > MAX_BLOCKFILE_SIZE

\* the CBlockFileInfo of a file before a call: a file without one is empty
InfoOf(vinfo, nFile) ==
    IF nFile < Len(vinfo) THEN vinfo[nFile + 1] ELSE NewFileInfo

C10_UndoFileSelection ==
    [][nCalls' = nCalls + 1 /\ last'.op = "writeUndoBlock" =>
        /\ ~aborted'
        /\ last'.error = ""
        /\ last'.nFile = last'.fileIndex
        /\ \E w \in written' \ written :
              w.type = RevertBlock /\ w.nFile = last'.fileIndex
        /\ last'.fileIndex > nLastBlockFile =>
              /\ nLastBlockFile' = last'.fileIndex
              /\ Len(vinfoBlockFile') > last'.fileIndex
    ]_vars

\* C10 holds for every store that has written a record before
C10_AfterFirstWrite ==
    [][(/\ nCalls' = nCalls + 1
        /\ last'.op = "writeUndoBlock"
        /\ vinfoBlockFile # <<>>) =>
        /\ ~aborted'
        /\ last'.error = ""
        /\ last'.nFile = last'.fileIndex
        /\ last'.fileIndex > nLastBlockFile =>
              /\ nLastBlockFile' = last'.fileIndex
              /\ Len(vinfoBlockFile') > last'.fileIndex
    ]_vars

\* a position in file f, as a caller holds it for a block written earlier
PosIn(f) == [nFile |-> f, nPos |-> HeaderSize]

Missing(type, f) == ~disk[type][f].exists

\* C11: a read from a data file that cannot be found gives an empty view and
\* no error: loadBlockFile(f), loadBlock(p) and loadUndoBlock(p, h) alike.
C11_MissingFilePolicy ==
    \A f \in FileIndexes :
        /\ Missing(ForwardBlock, f) =>
              /\ ~loadBlockFile(CurrentMapper, f, disk, nLastBlockFile).valid
              /\ loadBlock(CurrentMapper, PosIn(f), ForwardBlock, 0, disk,
                           nLastBlockFile).error = ""
        /\ Missing(RevertBlock, f) =>
              loadBlock(CurrentMapper, PosIn(f), RevertBlock, 1, disk,
                        nLastBlockFile).error = ""

\* the part of C11 that holds: loadBlockFile of a missing file is empty
C11_LoadBlockFileEmpty ==
    \A f \in FileIndexes :
        Missing(ForwardBlock, f) =>
            ~loadBlockFile(CurrentMapper, f, disk, nLastBlockFile).valid

\* a is an ancestor of r and not r itself
ProperAncestor(a, r) == a # r /\ AncestorOrSelf(a, r)

\* C18: no entry of headerChainTips is there twice, none is a proper
\* ancestor of another, and none carries a failure flag once appendHeader
\* has been called for it.
C18_TipsAreLeaves ==
    /\ \A i, j \in 1..Len(headerChainTips) :
          i # j =>
              /\ headerChainTips[i] # headerChainTips[j]
              /\ ~ProperAncestor(headerChainTips[i], headerChainTips[j])
    /\ \A block \in Records :
          CanAppend(block) /\ Failed(block) /\ ~After(block).abort =>
              block \notin TipSet(After(block).tips)

\* the parts of C18, one by one
C18_NoDuplicate ==
    \A i, j \in 1..Len(headerChainTips) :
        i # j => headerChainTips[i] # headerChainTips[j]

C18_NoAncestor ==
    \A i, j \in 1..Len(headerChainTips) :
        ~ProperAncestor(headerChainTips[i], headerChainTips[j])

C18_NoFailedTip ==
    \A block \in Records :
        CanAppend(block) /\ Failed(block) /\ ~After(block).abort =>
            block \notin TipSet(After(block).tips)

\* C19: an appendHeader call that changes the tip of the main chain leaves
\* pindexBestHeader on that tip, and not on a record with a failure flag.
C19_BestHeaderIsMainTip ==
    [][MainTip' # MainTip =>
          /\ pindexBestHeader' = MainTip'
          /\ nStatus[pindexBestHeader'] \cap BLOCK_FAILED_MASK = {}
    ]_vars

\* C19 holds as long as no record carries a failure flag
C19_WithoutFailures ==
    [][MainTip' # MainTip /\ (\A r \in Records : ~Failed(r)) =>
          pindexBestHeader' = MainTip'
    ]_vars

\* C20: a view of a blk file is writable exactly when the file is the last
\* blk file at the time of the mapFile call, a view of a rev file always.
C20_WritableMode ==
    \A f \in FileIndexes :
        LET b == mapFile(CurrentMapper, f, ForwardBlock, disk, nLastBlockFile)
            r == mapFile(CurrentMapper, f, RevertBlock, disk, nLastBlockFile)
        IN  /\ b.buf # 0 => (b.writable <=> f = nLastBlockFile)
            /\ r.buf # 0 => r.writable

\* the part of C20 that holds: every view of a rev file is writable
C20_RevertWritable ==
    \A f \in FileIndexes :
        LET r == mapFile(CurrentMapper, f, RevertBlock, disk, nLastBlockFile)
        IN  r.buf # 0 => r.writable

(***************************************************************************)
(* Properties of the key-value store                                       *)
(***************************************************************************)
\* C14: whenever the persisted 'l' key holds the file index n, the batch that
\* wrote 'l' = n also wrote the 'f' FileInfo record of file n.
C14_LastFileConsistency ==
    db.l # Absent =>
        /\ batch.nLastFile = db.l
        /\ \E it \in batch.fileInfo : it[1] = db.l

\* what the code does keep: every batch writes the 'l' key, so the key is
\* always the one of the batch written last
C14_LastKeyOfLastBatch == db.l = batch.nLastFile

(***************************************************************************)
(* Properties of reconsiderBlock                                           *)
(***************************************************************************)
\* x is r, a descendant of r or an ancestor of r
OnBranchOf(r, x) ==
    \/ GetAncestor(x, nHeight(r)) = r
    \/ GetAncestor(r, nHeight(x)) = x

\* C15: reconsiderBlock(r) clears FAILED_VALID and FAILED_CHILD on every
\* record whose ancestor at the height of r is r (r included) and on every
\* ancestor of r, and leaves the status of every other record unchanged.
C15_ReconsiderFrame ==
    [][nReconsider' # nReconsider =>
          \A x \in Records :
              nStatus'[x] = IF OnBranchOf(last'.block, x)
                            THEN nStatus[x] \ BLOCK_FAILED_MASK
                            ELSE nStatus[x]]_vars

\* a call has cleared the flags of r and of a descendant of r
C15_Witness ==
    /\ last.op = "reconsiderBlock"
    /\ last.before[last.block] # {}
    /\ nStatus[last.block] = {}
    /\ \E x \in Records \ {last.block} :
          /\ GetAncestor(x, nHeight(last.block)) = last.block
          /\ last.before[x] # {}
          /\ nStatus[x] = {}

\* a call has cleared the flags of an ancestor of r and has left a record
\* off the branch of r failed
C15_AncestorAndOther ==
    /\ last.op = "reconsiderBlock"
    /\ \E x \in Records \ {last.block} :
          /\ GetAncestor(last.block, nHeight(x)) = x
          /\ last.before[x] # {}
          /\ nStatus[x] = {}
    /\ \E y \in Records :
          /\ ~OnBranchOf(last.block, y)
          /\ last.before[y] # {}
          /\ nStatus[y] = last.before[y]

(***************************************************************************)
(* Properties of the load of the index                                     *)
(***************************************************************************)
\* the leaves of the tree of the records without a failed ancestor-or-self
Leaves ==
    {r \in Records :
        /\ ~HasFailedAncestorOrSelf(r)
        /\ \A c \in Records : pprev[c] = r => HasFailedAncestorOrSelf(c)}

LoadDone == last.op = "CacheAllBlockInfos"

\* C16: whatever the order in which CacheAllBlockInfos hands the records of a
\* persisted tree to appendHeader, the tips are afterwards the leaves of the
\* non-failed sub-forest and the main tip is a leaf of maximal chainWork.
C16_LoadOrderIndependent ==
    LoadDone =>
        /\ ~aborted
        /\ TipSet(headerChainTips) = Leaves
        /\ MainTip \in Leaves
        /\ \A l \in Leaves : nChainWork(l) <= nChainWork(MainTip)

\* the part of C16 about the tips, for an index without failed records
C16_TipsWithoutFailures ==
    (LoadDone /\ \A r \in Records : ~Failed(r)) =>
        /\ ~aborted
        /\ TipSet(headerChainTips) = Leaves

\* the part of C16 about the main tip, for an index without failed records
C16_MainTipWithoutFailures ==
    (LoadDone /\ \A r \in Records : ~Failed(r)) =>
        /\ MainTip \in Leaves
        /\ \A l \in Leaves : nChainWork(l) <= nChainWork(MainTip)

\* the load of an index with failed records runs through
C16_NoAbort == LoadDone => ~aborted

\* the tips after a load that ran through
C16_TipsUnlessAborted == (LoadDone /\ ~aborted) => TipSet(headerChainTips) = Leaves

(***************************************************************************)
(* Properties of the reindex worker                                        *)
(***************************************************************************)
\* the loop over the files has ended: the file to scan next cannot be mapped
ScanLoopEnds ==
    /\ worker.pc = "open"
    /\ ~loadBlockFile(CurrentMapper, worker.nFile, disk, nLastBlockFile).valid

\* C12: the worker moves the reindex state only from ScanningFiles to
\* ParsingBlocks, and only when the loop over the files has ended, and from
\* ParsingBlocks to NoReindex, and only when waitValidationFinished() has
\* returned; it never moves it back to ScanningFiles; and a worker is started
\* only when the state is not NoReindex.
C12_ReindexOrdering ==
    [][/\ reindexing' # reindexing =>
             \/ /\ reindexing = ScanningFiles
                /\ reindexing' = ParsingBlocks
                /\ ScanLoopEnds
                /\ worker'.pc = "wait"
             \/ /\ reindexing = ParsingBlocks
                /\ reindexing' = NoReindex
                /\ worker.pc = "wait"
                /\ validation.pending = 0
                /\ worker'.pc = "done"
       /\ (worker.pc = "none" /\ worker'.pc = "start") => reindexing # NoReindex
      ]_vars

\* a worker that was started in ScanningFiles has submitted blocks, has gone
\* through ParsingBlocks and has ended in NoReindex
C12_Witness ==
    /\ worker.pc = "done"
    /\ reindexing = NoReindex
    /\ db.R = Absent
    /\ Len(validation.submitted) > 0

\* C13: once the closing-down flag is raised and while submitted blocks are
\* not yet validated, the worker changes neither the reindex state nor the
\* persisted R key, so that a new instance finds the state of the moment the
\* flag was raised.
C13_CancellationPreservesState ==
    [][(closingDown /\ validation.pending > 0) =>
          /\ db'.R = db.R
          /\ reindexing' = reindexing]_vars

\* what the code keeps: a worker that sees the flag between two files returns
\* and leaves the state, which is not NoReindex, as it is
C13_ReturnKeepsState ==
    [][(worker.pc # "returned" /\ worker'.pc = "returned") =>
          /\ closingDown
          /\ db'.R = db.R
          /\ reindexing' = reindexing
          /\ ReindexingOf(db') # NoReindex]_vars

\* C17: a worker that was started, in ScanningFiles or in ParsingBlocks,
\* eventually sets the state to NoReindex, when the closing-down flag is never
\* raised and the validation engine keeps finishing what it was given.
C17_ReindexLiveness == (worker.pc = "start") ~> (reindexing = NoReindex)

\* a worker has scanned two files to their end, has found the third one
\* missing and has set NoReindex
C17_Witness ==
    /\ worker.pc = "done"
    /\ worker.nFile = 2
    /\ Len(validation.submitted) >= 2
    /\ reindexing = NoReindex

\* every loop over one file ends: a worker in the scan loop leaves it
C17_ScanLoopEnds == (worker.pc = "scan") ~> (worker.pc # "scan")

(***************************************************************************)
(* Properties of the physical files                                        *)
(***************************************************************************)
\* C28: no blk file is ever created at, or resized to, a size larger than
\* MAX_BLOCKFILE_SIZE.
C28_PhysicalSizeBound ==
    \A f \in FileIndexes :
        disk[ForwardBlock][f].exists =>
            disk[ForwardBlock][f].size <= MAX_BLOCKFILE_SIZE

\* what the code keeps: a blk file is at most one chunk larger than the limit
C28_WithinOneChunk ==
    \A f \in FileIndexes :
        disk[ForwardBlock][f].exists =>
            disk[ForwardBlock][f].size <= MAX_BLOCKFILE_SIZE + BLOCKFILE_CHUNK_SIZE


\* C30: a writeBlock call on a store that began fresh and writable finds or
\* creates the blk file it selects, whatever undo writes came before it: it
\* never raises "Failed to open file".
C30_BlockWriteOpensFile ==
    last.op = "writeBlock" => last.error # "Failed to open file"


\* C26: the assertion of appendHeader that the main chain has a tip holds in
\* every call, also when a record with a failure flag is appended while the
\* tips and the main chain are still empty, as the load in hash order does.
C26_TipAssertionHolds == ~aborted


\* the part of C22 about the submissions
C22_AtMostOneSubmission ==
    (closingDown /\ last.op = "StartShutdown") =>
        Len(validation.submitted) <= last.submitted + 1

\* the part of C22 about the files, for a flag raised while a file is scanned
C22_NoFurtherFile ==
    (closingDown /\ last.op = "StartShutdown" /\ last.pc \in {"scan", "scanned"}) =>
        (worker.pc \in {"scan", "scanned"} => worker.nFile = last.nFile)

\* C22: once the closing-down flag is raised, the worker submits at most one
\* further block and scans no further file before it returns.
C22_CancellationResponsive ==
    /\ C22_AtMostOneSubmission
    /\ C22_NoFurtherFile


(***************************************************************************)
(* Properties of the scan over files the writer produced                   *)
(***************************************************************************)
\* the records writeBlock put into blk file f, and those the scan is to submit
BlkRecords(f) == {w \in written : w.type = ForwardBlock /\ w.nFile = f}
BlocksIn(f) == {w \in BlkRecords(f) : w.size >= 80}

\* the submissions the validation engine received for file f, in their order
SubmittedIn(f) ==
    SelectSeq(validation.submitted, LAMBDA p : p.nFile = f)

\* LoadExternalBlockFile has returned for file f
ScanDone(f) ==
    /\ disk[ForwardBlock][f].exists
    /\ worker.pc \in {"open", "scan", "scanned", "wait", "done", "returned"}
    /\ worker.nFile > f \/ (worker.nFile = f /\ worker.pc = "returned")

\* one submission for each record of 80 bytes or more, at the position
\* writeBlock returned, in file order
SubmittedAsWritten(f) ==
    LET s == SubmittedIn(f) IN
    /\ Len(s) = Cardinality(BlocksIn(f))
    /\ {s[i].nPos : i \in 1..Len(s)} = {w.nPos : w \in BlocksIn(f)}
    /\ \A i, j \in 1..Len(s) : i < j => s[i].nPos < s[j].nPos

\* the FileInfo that foundBlockFile registered for file f
RegisteredAsWritten(f) ==
    BlocksIn(f) # {} =>
        /\ Len(vinfoBlockFile) > f
        /\ vinfoBlockFile[f + 1].nBlocks = Len(SubmittedIn(f))
        /\ \E w \in BlocksIn(f) :
              /\ vinfoBlockFile[f + 1].nSize = w.nPos + w.size
              /\ \A v \in BlocksIn(f) : v.nPos <= w.nPos

C25_HistoryBound == Len(fileHistory) <= HistorySize

\* what the code keeps: the files of the buffers in the history, the last
\* HistorySize files opened, have their mapping in their slot
C25_OpenedStayMapped ==
    \A i \in 1..Len(fileHistory) :
        LET h == fileHistory[i]
            list == IF h.type = ForwardBlock THEN datafiles ELSE revertDatafiles
        IN  h.fileIndex < Len(list) /\ list[h.fileIndex + 1].id = h.id

\* C25: the history never holds more than 10 entries, and a view of one of
\* the 10 most recently viewed distinct files finds a live mapping: the call
\* does not open the file again.
C25_MappingRetention ==
    /\ C25_HistoryBound
    /\ \A i \in 1..Len(Recent) :
          i <= HistorySize =>
              LET list == IF Recent[i].type = ForwardBlock THEN datafiles
                          ELSE revertDatafiles
              IN  /\ Recent[i].fileIndex < Len(list)
                  /\ list[Recent[i].fileIndex + 1].id # 0
    /\ (last.op = "mapFile" /\ last.recentlyUsed) => ~last.opened


(***************************************************************************)
(* Properties of the threads on the file mapper                            *)
(***************************************************************************)
\* the buffers the threads hold
HeldViews == {threads[t].view : t \in Threads} \ {0}

\* every buffer a thread holds has its DataFile alive
C27_HeldViewsAlive ==
    \A v \in HeldViews : heap[views[v].df].state = "alive"

\* no DataFile is deleted twice
C27_ReleasedOnce ==
    \A o \in ObjectIds : heap[o].state # "deleted twice"

\* no DataFile gets a second buffer: the buffer of a DataFile is the one it
\* was created for
C27_OneBufferPerDataFile ==
    \A v \in ObjectIds : views[v].df # 0 => views[v].df = v

\* C27: under any interleaving of mapFile calls with threads that drop their
\* last reference outside the mapper lock, the DataFile of every buffer that
\* mapFile returned stays alive until the buffer is dropped, each DataFile is
\* released once, and mapFile hands out no new buffer on a DataFile whose
\* buffer has expired and whose deleter has not run.
C27_ViewLifetime ==
    /\ C27_HeldViewsAlive
    /\ C27_ReleasedOnce
    /\ C27_OneBufferPerDataFile


\* the slot vector of a buffer's file
SlotsOf(v) == IF views[v].type = ForwardBlock THEN datafiles ELSE revertDatafiles

\* no range assertion of the deleter or of fileHasGrown has failed
C29_RangeAssertsHold ==
    last.op \in {"mapFile", "cleanup", "fileHasGrown"} => last.error # "assert"

\* the file of every buffer a thread holds has a slot
C29_ViewsKeepTheirSlot ==
    \A v \in HeldViews : views[v].fileIndex < Len(SlotsOf(v))

\* C29: after any sequence of mapFile, view drops, file growth and
\* CacheAllBlockInfos every slot access is in range: the range assertions of
\* the deleter and of fileHasGrown hold, and CacheAllBlockInfos discards no
\* slot of a file that has an outstanding view.
C29_SlotIndexSafety ==
    /\ C29_RangeAssertsHold
    /\ C29_ViewsKeepTheirSlot


\* the lock a thread is about to take, by the line it is at
WaitsFor(t) ==
    LET pc == threads[t].pc IN
    IF pc \in {"mapFile", "cleanup", "writeBlock.grow"} THEN "mapper"
    ELSE IF pc \in {"writeBlock", "foundBlockFile"} THEN "writer"
    ELSE IF pc \in {"CacheAllBlockInfos.resized", "Index"} THEN "index"
    ELSE "none"

\* the thread waits for a lock that another thread holds
Blocked(t) ==
    /\ WaitsFor(t) # "none"
    /\ locks[WaitsFor(t)] \notin {NoThread, t}

\* some threads wait for locks that only threads among them can release
Deadlocked ==
    \E S \in SUBSET Threads :
        /\ S # {}
        /\ \A t \in S : Blocked(t) /\ locks[WaitsFor(t)] \in S

\* the locks a thread holds when it takes the writer or the mapper lock
LockOrderStep ==
    \A t \in Threads :
        /\ (locks'.writer = t /\ locks.writer # t) =>
              (locks.mapper # t /\ locks.index # t)
        /\ (locks'.mapper = t /\ locks.mapper # t) => locks.index # t

\* C24: no thread takes the writer lock while it holds the mapper lock, a
\* thread that holds the index lock takes neither of the two, and no
\* interleaving of writeBlock, mapFile, the deleter, foundBlockFile,
\* CacheAllBlockInfos and the Index operations ends in a deadlock.
C24_LockOrdering == [][LockOrderStep /\ ~Deadlocked']_vars

\* a writer holds the writer lock and the mapper lock, taken in this order,
\* while another thread waits for one of them
C24_Witness ==
    \E t, u \in Threads :
        /\ locks.writer = t
        /\ locks.mapper = t
        /\ threads[t].pc = "writeBlock.grow.locked"
        /\ Blocked(u)


\* a mapFile call that completes reports the size the file has on disk at
\* that time: after a growth, the new size
C21_SizeAfterGrowth ==
    (last.op = "mapFile" /\ last.buf # 0) => last.size = last.fileSize

\* the buffers the threads hold that were mapped before their file grew
OldViews ==
    {v \in HeldViews :
        views[v].size < disk[views[v].type][views[v].fileIndex].size}

\* the buffers mapped before a growth stay usable until they are dropped
C21_OldViewsUsable ==
    \A v \in OldViews : heap[views[v].df].state = "alive"

\* the deleter of a buffer leaves a slot that holds another DataFile as it is
C21_OldDropKeepsSlot ==
    [][\A t \in Threads :
          (threads[t].pc = "cleanup.locked" /\ threads'[t].pc = "cleanup.delete") =>
              LET c == views[threads[t].old]
                  list == IF c.type = ForwardBlock THEN datafiles
                          ELSE revertDatafiles
              IN  (c.fileIndex < Len(list) /\ list[c.fileIndex + 1].id # c.df) =>
                      /\ datafiles' = datafiles
                      /\ revertDatafiles' = revertDatafiles]_vars

\* C21: the file is resized and its slot cleared as one step under the mapper
\* lock, so every mapFile call that completes after a growth reports the new
\* size; the views obtained before the growth stay usable until dropped, and
\* dropping one of them neither clears nor releases the newer mapping.
C21_GrowthAndRemapping ==
    /\ [](C21_SizeAfterGrowth /\ C21_OldViewsUsable)
    /\ C21_OldDropKeepsSlot

\* a thread maps the file after another thread's growth of it
C21_RemappedAfterGrowth ==
    /\ last.op = "mapFile"
    /\ last.buf # 0
    /\ last.fileSize > BLOCKFILE_CHUNK_SIZE
    /\ \E t \in Threads : t # last.thread /\ locks.writer = t

====
